---- MODULE Spec2Model ----
(***************************************************************************)
(* Verification model of the crypto-trading-bot core: the six strategies   *)
(* (signal generation with warm-up and latch) and the Backtester that      *)
(* replays their signals against a candle series.                          *)
(*                                                                         *)
(* Numbers.  The program computes in IEEE doubles; the model computes in   *)
(* exact rationals <<numerator, denominator>> (denominator > 0, reduced),  *)
(* so every comparison the code makes is decided exactly.  The one         *)
(* irrational quantity, the Bollinger standard deviation, is decided       *)
(* exactly where the code compares against a band and is carried to three  *)
(* decimals where the code turns it into a confidence.                     *)
(*                                                                         *)
(* Candles are [timestamp, close, volume]; open/high/low are not read by   *)
(* any decision of the modelled code.  Timestamps are in milliseconds.     *)
(* Arrays are 1-based here and 0-based in the source: source index i is    *)
(* element i+1.                                                            *)
(***************************************************************************)
EXTENDS Integers, Sequences, FiniteSets, TLC

VARIABLES
    strategy,        \* the Strategy instance under test (its fields)
    twin,            \* a second instance of the same class and parameters
    candles,         \* the candle array: backtest()'s argument / the fed window
    pc,              \* position of the running procedure
    i,               \* Backtester.backtest: the loop index (0-based, as in the source)
    initialBalance,  \* Backtester.initialBalance
    currentBalance,  \* Backtester.currentBalance
    position,        \* Backtester.position
    trades,          \* Backtester.trades
    maxBalance,      \* Backtester.maxBalance
    sig,             \* the Signal returned by the latest analyze() call
    twinSig,         \* the Signal the twin returned for the same window
    emitted,         \* the non-HOLD signals returned so far, in order
    prevStrategy,    \* the instance's fields just before the latest analyze() call
    calls,           \* window lengths of the analyze() calls made by backtest()
    result,          \* the BacktestResult returned by backtest()
    tradesId,        \* which array object Backtester.trades refers to
    earlier,         \* a caller's hold on the result of an earlier backtest()
    strategies,      \* StrategyComparator.compareStrategies: its argument
    comparisons,     \* StrategyComparator.compareStrategies: its local list
    runs,            \* the backtest() calls of one comparison, run side by side
    bot,             \* TradingBot: demoMode, isRunning, intervalId, candleHistory (open times)
    liveTrader,      \* LiveTrader: isActive
    timers,          \* the interval timers set and not cleared
    tasks,           \* the asynchronous calls in flight and where each waits
    log,             \* what the bot did: analyses, demo trades, exchange orders
    lifecycle,       \* calls made so far, and whether the bot has been stopped
    market,          \* the exchange: open time of its latest candle, in intervals
    cli              \* InteractiveCLI: binanceClient, currentBot, the bots it made

vars == <<strategy, twin, candles, pc, i, initialBalance, currentBalance,
          position, trades, maxBalance, sig, twinSig, emitted,
          prevStrategy, calls, result, tradesId, earlier, strategies,
          comparisons, runs, bot, liveTrader, timers, tasks, log, lifecycle,
          market, cli>>

(***************************************************************************)
(* Bounds                                                                  *)
(***************************************************************************)
\* analyze() calls made past a strategy's minimum lookback / loop iterations
\* of a backtest beyond the start index
MaxTail == 3

(***************************************************************************)
(* Exact arithmetic                                                        *)
(***************************************************************************)
Abs(x) == IF x < 0 THEN -x ELSE x

Sign(x) == IF x > 0 THEN 1 ELSE IF x < 0 THEN -1 ELSE 0

Max(a, b) == IF a >= b THEN a ELSE b

Min(a, b) == IF a <= b THEN a ELSE b

RECURSIVE GCD(_, _)
GCD(a, b) == IF b = 0 THEN a ELSE GCD(b, a % b)

RNorm(r) ==
    LET n == IF r[2] < 0 THEN -r[1] ELSE r[1]
        d == Abs(r[2])
        g == GCD(Abs(n), d)
    IN  IF n = 0 THEN <<0, 1>> ELSE <<n \div g, d \div g>>

R(n) == <<n, 1>>

LCM(a, b) == (a \div GCD(a, b)) * b

RAdd(a, b) ==
    LET l == LCM(a[2], b[2])
    IN  RNorm(<<a[1] * (l \div a[2]) + b[1] * (l \div b[2]), l>>)

RSub(a, b) == RAdd(a, <<-b[1], b[2]>>)

RMul(a, b) ==
    LET x == RNorm(<<a[1], b[2]>>)
        y == RNorm(<<b[1], a[2]>>)
    IN  RNorm(<<x[1] * y[1], x[2] * y[2]>>)

RDiv(a, b) == RMul(a, IF b[1] < 0 THEN <<-b[2], -b[1]>> ELSE <<b[2], b[1]>>)

RAbs(a) == <<Abs(a[1]), a[2]>>

RLt(a, b) == RSub(a, b)[1] < 0

RLe(a, b) == RSub(a, b)[1] <= 0

RGt(a, b) == RLt(b, a)

RGe(a, b) == RLe(b, a)

RMax(a, b) == IF RGe(a, b) THEN a ELSE b

RMin(a, b) == IF RLe(a, b) THEN a ELSE b

\* JavaScript Array.prototype.slice(-n): the last n elements (all, if fewer)
LastN(s, n) == IF Len(s) <= n THEN s ELSE SubSeq(s, Len(s) - n + 1, Len(s))

\* slice(0, -1)
ButLast(s) == SubSeq(s, 1, Len(s) - 1)

Last(s) == s[Len(s)]

RECURSIVE SumClose(_)
SumClose(cs) == IF cs = <<>> THEN 0 ELSE Last(cs).close + SumClose(ButLast(cs))

(***************************************************************************)
(* Data model                                                              *)
(***************************************************************************)
IntervalMs == 30 * 60 * 1000

\* the k-th candle of a series (k = 1, 2, ...): timestamps strictly increase
Candle(k, close, volume) ==
    [timestamp |-> k * IntervalMs, close |-> close, volume |-> volume]

\* faulty variant: the confidence is given in percent
Signal_percent(type, candle, confidence) ==
    [type |-> type, price |-> candle.close, timestamp |-> candle.timestamp,
     confidence |-> RMul(confidence, R(100))]

Signal(type, candle, confidence) ==
    [type |-> type, price |-> candle.close, timestamp |-> candle.timestamp,
     confidence |-> confidence]

NoSignal == [type |-> "NONE", price |-> 0, timestamp |-> 0, confidence |-> R(0)]

(***************************************************************************)
(* MovingAverageCrossover                                                  *)
(***************************************************************************)
NewMAC(shortPeriod, longPeriod) ==
    [kind |-> "MAC", shortPeriod |-> shortPeriod, longPeriod |-> longPeriod,
     lastSignal |-> "HOLD"]

\* faulty variant: a window shorter than the period yields its last close
MAC_calculateMA_lastClose(cs, period) ==
    IF Len(cs) < period THEN R(Last(cs).close)
    ELSE RNorm(<<SumClose(LastN(cs, period)), period>>)

MAC_calculateMA(cs, period) ==
    IF Len(cs) < period THEN R(0)
    ELSE RNorm(<<SumClose(LastN(cs, period)), period>>)

\* faulty variant: the confidence has no floor
MAC_confidence_noFloor(shortMA, longMA) ==
    LET currentSpread == RDiv(RSub(shortMA, longMA), longMA)
    IN  RMin(<<9, 10>>, RMul(RAbs(currentSpread), R(50)))

MAC_confidence(shortMA, longMA) ==
    LET currentSpread == RDiv(RSub(shortMA, longMA), longMA)
    IN  RMax(<<1, 2>>, RMin(<<9, 10>>, RMul(RAbs(currentSpread), R(50))))

MAC_analyze(s, cs) ==
    IF Len(cs) < s.longPeriod
    THEN [signal |-> Signal("HOLD", Last(cs), R(0)), strategy |-> s]
    ELSE
      LET shortMA == MAC_calculateMA(cs, s.shortPeriod)
          longMA == MAC_calculateMA(cs, s.longPeriod)
          prevCandles == ButLast(cs)
          prevShortMA == MAC_calculateMA(prevCandles, s.shortPeriod)
          prevLongMA == MAC_calculateMA(prevCandles, s.longPeriod)
          currentCandle == Last(cs)
      IN  IF RLe(prevShortMA, prevLongMA) /\ RGt(shortMA, longMA)
             /\ s.lastSignal # "BUY"
          THEN [signal |-> Signal("BUY", currentCandle,
                                  MAC_confidence(shortMA, longMA)),
                strategy |-> [s EXCEPT !.lastSignal = "BUY"]]
          ELSE IF RGe(prevShortMA, prevLongMA) /\ RLt(shortMA, longMA)
                  /\ s.lastSignal # "SELL"
          THEN [signal |-> Signal("SELL", currentCandle,
                                  MAC_confidence(shortMA, longMA)),
                strategy |-> [s EXCEPT !.lastSignal = "SELL"]]
          ELSE [signal |-> Signal("HOLD", currentCandle, R(0)),
                strategy |-> s]

(***************************************************************************)
(* RSIStrategy                                                             *)
(***************************************************************************)
NewRSI(period, oversoldThreshold, overboughtThreshold) ==
    [kind |-> "RSI", period |-> period,
     oversoldThreshold |-> oversoldThreshold,
     overboughtThreshold |-> overboughtThreshold, lastSignal |-> "HOLD"]

\* changes[k] = candles[k].close - candles[k-1].close
Changes(cs) == [k \in 1..(Len(cs) - 1) |-> cs[k + 1].close - cs[k].close]

RECURSIVE Gains(_)
Gains(ch) ==
    IF ch = <<>> THEN 0
    ELSE (IF Last(ch) > 0 THEN Last(ch) ELSE 0) + Gains(ButLast(ch))

RECURSIVE Losses(_)
Losses(ch) ==
    IF ch = <<>> THEN 0
    ELSE (IF Last(ch) > 0 THEN 0 ELSE Abs(Last(ch))) + Losses(ButLast(ch))

\* faulty variant: a window without gains and losses is neutral
RSI_calculateRSI_flatNeutral(s, cs) ==
    IF Len(cs) < s.period + 1 THEN R(50)
    ELSE
      LET recentChanges == LastN(Changes(cs), s.period)
          avgGain == RNorm(<<Gains(recentChanges), s.period>>)
          avgLoss == RNorm(<<Losses(recentChanges), s.period>>)
      IN  IF avgLoss = R(0) /\ avgGain = R(0) THEN R(50)
          ELSE IF avgLoss = R(0) THEN R(100)
          ELSE LET rs == RDiv(avgGain, avgLoss)
               IN  RSub(R(100), RDiv(R(100), RAdd(R(1), rs)))

RSI_calculateRSI(s, cs) ==
    IF Len(cs) < s.period + 1 THEN R(50)
    ELSE
      LET recentChanges == LastN(Changes(cs), s.period)
          avgGain == RNorm(<<Gains(recentChanges), s.period>>)
          avgLoss == RNorm(<<Losses(recentChanges), s.period>>)
      IN  IF avgLoss = R(0) THEN R(100)
          ELSE LET rs == RDiv(avgGain, avgLoss)
               IN  RSub(R(100), RDiv(R(100), RAdd(R(1), rs)))

\* this.lastSignal !== type
RSI_notLatched(s, type) == s.lastSignal # type

RSI_analyze(s, cs) ==
    IF Len(cs) < s.period + 1
    THEN [signal |-> Signal("HOLD", Last(cs), R(0)), strategy |-> s]
    ELSE
      LET rsi == RSI_calculateRSI(s, cs)
          prevRSI == RSI_calculateRSI(s, ButLast(cs))
          currentCandle == Last(cs)
      IN  IF RLe(prevRSI, R(s.oversoldThreshold))
             /\ RGt(rsi, R(s.oversoldThreshold))
             /\ RSI_notLatched(s, "BUY")
          THEN [signal |-> Signal("BUY", currentCandle,
                    RMin(<<9, 10>>,
                         RDiv(RSub(R(s.oversoldThreshold),
                                   RMin(prevRSI, R(20))), R(20)))),
                strategy |-> [s EXCEPT !.lastSignal = "BUY"]]
          ELSE IF RGe(prevRSI, R(s.overboughtThreshold))
                  /\ RLt(rsi, R(s.overboughtThreshold))
                  /\ RSI_notLatched(s, "SELL")
          THEN [signal |-> Signal("SELL", currentCandle,
                    RMin(<<9, 10>>,
                         RDiv(RSub(RMax(prevRSI, R(80)),
                                   R(s.overboughtThreshold)), R(20)))),
                strategy |-> [s EXCEPT !.lastSignal = "SELL"]]
          ELSE [signal |-> Signal("HOLD", currentCandle, R(0)),
                strategy |-> s]

(***************************************************************************)
(* BollingerBandsStrategy                                                  *)
(***************************************************************************)
NewBB(period, standardDeviations) ==
    [kind |-> "BB", period |-> period,
     standardDeviations |-> standardDeviations, lastSignal |-> "HOLD"]

\* floor of the square root, by bisection: lo*lo <= x < hi*hi
RECURSIVE ISqrtIn(_, _, _)
ISqrtIn(x, lo, hi) ==
    IF hi - lo <= 1 THEN lo
    ELSE LET mid == (lo + hi) \div 2
         IN  IF mid * mid <= x THEN ISqrtIn(x, mid, hi)
             ELSE ISqrtIn(x, lo, mid)

ISqrt(x) == ISqrtIn(x, 0, Min(x + 1, 46340))

\* Math.sqrt of a rational >= 0, carried to three decimals (rounded down)
Sqrt3(r) == RNorm(<<ISqrt(r[1] * r[2] * 1000000), 1000 * r[2]>>)

RECURSIVE SumSqDev(_, _)
SumSqDev(cs, mean) ==
    IF cs = <<>> THEN R(0)
    ELSE LET d == RSub(R(Last(cs).close), mean)
         IN  RAdd(RMul(d, d), SumSqDev(ButLast(cs), mean))

\* faulty variant: the middle band averages the whole window
BB_calculateBollingerBands_wholeWindow(s, cs) ==
    LET recentCandles == LastN(cs, s.period)
        middleBand == RNorm(<<SumClose(cs), Len(cs)>>)
        variance == RDiv(SumSqDev(recentCandles, middleBand), R(s.period))
        standardDeviation == Sqrt3(variance)
    IN  [middleBand |-> middleBand,
         variance |-> variance,
         upperBand |-> RAdd(middleBand,
                            RMul(standardDeviation, R(s.standardDeviations))),
         lowerBand |-> RSub(middleBand,
                            RMul(standardDeviation, R(s.standardDeviations)))]

BB_calculateBollingerBands(s, cs) ==
    LET recentCandles == LastN(cs, s.period)
        middleBand == RNorm(<<SumClose(recentCandles), s.period>>)
        variance == RDiv(SumSqDev(recentCandles, middleBand), R(s.period))
        standardDeviation == Sqrt3(variance)
    IN  [middleBand |-> middleBand,
         variance |-> variance,
         upperBand |-> RAdd(middleBand,
                            RMul(standardDeviation, R(s.standardDeviations))),
         lowerBand |-> RSub(middleBand,
                            RMul(standardDeviation, R(s.standardDeviations)))]

\* price <= lowerBand, decided on the exact band middle - k*sqrt(variance)
BB_atOrBelowLower(s, price, b) ==
    LET gap == RSub(b.middleBand, R(price))
        k == R(s.standardDeviations)
    IN  RGe(gap, R(0)) /\ RLe(RMul(RMul(k, k), b.variance), RMul(gap, gap))

\* price >= upperBand, decided on the exact band middle + k*sqrt(variance)
BB_atOrAboveUpper(s, price, b) ==
    LET gap == RSub(R(price), b.middleBand)
        k == R(s.standardDeviations)
    IN  RGe(gap, R(0)) /\ RLe(RMul(RMul(k, k), b.variance), RMul(gap, gap))

\* faulty variant: the latch is never consulted
BB_alwaysFire(s, type) == TRUE

\* this.lastSignal !== type
BB_notLatched(s, type) == s.lastSignal # type

BB_analyze(s, cs) ==
    IF Len(cs) < s.period
    THEN [signal |-> Signal("HOLD", Last(cs), R(0)), strategy |-> s]
    ELSE
      LET b == BB_calculateBollingerBands(s, cs)
          currentCandle == Last(cs)
          price == currentCandle.close
      IN  IF BB_atOrBelowLower(s, price, b) /\ BB_notLatched(s, "BUY")
          THEN [signal |-> Signal("BUY", currentCandle,
                    RMin(<<9, 10>>,
                         RMul(RDiv(RSub(b.lowerBand, R(price)), b.lowerBand),
                              R(10)))),
                strategy |-> [s EXCEPT !.lastSignal = "BUY"]]
          ELSE IF BB_atOrAboveUpper(s, price, b) /\ BB_notLatched(s, "SELL")
          THEN [signal |-> Signal("SELL", currentCandle,
                    RMin(<<9, 10>>,
                         RMul(RDiv(RSub(R(price), b.upperBand), b.upperBand),
                              R(10)))),
                strategy |-> [s EXCEPT !.lastSignal = "SELL"]]
          ELSE [signal |-> Signal("HOLD", currentCandle, R(0)),
                strategy |-> s]

(***************************************************************************)
(* MACDStrategy                                                            *)
(***************************************************************************)
NewMACD(fastPeriod, slowPeriod, signalPeriod) ==
    [kind |-> "MACD", fastPeriod |-> fastPeriod, slowPeriod |-> slowPeriod,
     signalPeriod |-> signalPeriod, lastSignal |-> "HOLD"]

\* the loop of calculateEMA, up to and including element k
RECURSIVE MACD_emaLoop(_, _, _)
MACD_emaLoop(cs, period, k) ==
    LET multiplier == <<2, period + 1>>
    IN  IF k <= Len(cs) - period + 1 THEN R(cs[Len(cs) - period + 1].close)
        ELSE RAdd(RMul(R(cs[k].close), multiplier),
                  RMul(MACD_emaLoop(cs, period, k - 1),
                       RSub(R(1), multiplier)))

MACD_calculateEMA(cs, period) ==
    IF Len(cs) < period THEN R(Last(cs).close)
    ELSE MACD_emaLoop(cs, period, Len(cs))

RECURSIVE RSum(_)
RSum(rs) == IF rs = <<>> THEN R(0) ELSE RAdd(Last(rs), RSum(ButLast(rs)))

\* macdValues: one MACD value per source index i in
\* candles.length - signalPeriod .. candles.length - 1 with i >= slowPeriod
RECURSIVE MACD_macdValues(_, _, _)
MACD_macdValues(s, cs, idx) ==
    IF idx >= Len(cs) THEN <<>>
    ELSE (IF idx >= s.slowPeriod
          THEN <<RSub(MACD_calculateEMA(SubSeq(cs, 1, idx + 1), s.fastPeriod),
                      MACD_calculateEMA(SubSeq(cs, 1, idx + 1), s.slowPeriod))>>
          ELSE <<>>)
         \o MACD_macdValues(s, cs, idx + 1)

Null == [null |-> TRUE]

\* the signal line and histogram for a MACD value and the recent MACD values
MACD_lines(macd, macdValues) ==
    LET signal == RDiv(RSum(macdValues), R(Len(macdValues)))
    IN  [null |-> FALSE, macd |-> macd, signal |-> signal,
         histogram |-> RSub(macd, signal), count |-> Len(macdValues)]

MACD_calculateMACD(s, cs) ==
    IF Len(cs) < s.slowPeriod + s.signalPeriod THEN Null
    ELSE MACD_lines(RSub(MACD_calculateEMA(cs, s.fastPeriod),
                         MACD_calculateEMA(cs, s.slowPeriod)),
                    MACD_macdValues(s, cs, Len(cs) - s.signalPeriod))

\* faulty variant: the guard forgets the five extra candles
MACD_warmingUp_noMargin(s, cs) == Len(cs) < s.slowPeriod + s.signalPeriod

\* the warm-up guard
MACD_warmingUp(s, cs) == Len(cs) < s.slowPeriod + s.signalPeriod + 5

\* faulty variant: the middle tier reads the histogram one candle earlier
MACD_decide_earlierHistogram(s, currentCandle, macdData, prevMACDData) ==
    IF macdData.null \/ prevMACDData.null
    THEN [signal |-> Signal("HOLD", currentCandle, R(0)), strategy |-> s]
    ELSE
      LET bullishCrossover ==
              /\ RLe(prevMACDData.macd, prevMACDData.signal)
              /\ RGt(macdData.macd, macdData.signal)
          bearishCrossover ==
              /\ RGe(prevMACDData.macd, prevMACDData.signal)
              /\ RLt(macdData.macd, macdData.signal)
          macdAboveZero == RGt(macdData.macd, R(0))
          macdBelowZero == RLt(macdData.macd, R(0))
      IN  IF bullishCrossover /\ s.lastSignal # "BUY"
          THEN [signal |-> Signal("BUY", currentCandle,
                    IF macdAboveZero THEN <<4, 5>>
                    ELSE IF RGt(prevMACDData.histogram, R(0)) THEN <<3, 5>>
                    ELSE <<2, 5>>),
                strategy |-> [s EXCEPT !.lastSignal = "BUY"]]
          ELSE IF bearishCrossover /\ s.lastSignal # "SELL"
          THEN [signal |-> Signal("SELL", currentCandle,
                    IF macdBelowZero THEN <<4, 5>>
                    ELSE IF RLt(prevMACDData.histogram, R(0)) THEN <<3, 5>>
                    ELSE <<2, 5>>),
                strategy |-> [s EXCEPT !.lastSignal = "SELL"]]
          ELSE [signal |-> Signal("HOLD", currentCandle, R(0)),
                strategy |-> s]

\* faulty variant: a crossover needs the lines apart one candle earlier
MACD_decide_strictBefore(s, currentCandle, macdData, prevMACDData) ==
    IF macdData.null \/ prevMACDData.null
    THEN [signal |-> Signal("HOLD", currentCandle, R(0)), strategy |-> s]
    ELSE
      LET bullishCrossover ==
              /\ RLt(prevMACDData.macd, prevMACDData.signal)
              /\ RGt(macdData.macd, macdData.signal)
          bearishCrossover ==
              /\ RGt(prevMACDData.macd, prevMACDData.signal)
              /\ RLt(macdData.macd, macdData.signal)
          macdAboveZero == RGt(macdData.macd, R(0))
          macdBelowZero == RLt(macdData.macd, R(0))
      IN  IF bullishCrossover /\ s.lastSignal # "BUY"
          THEN [signal |-> Signal("BUY", currentCandle,
                    IF macdAboveZero THEN <<4, 5>>
                    ELSE IF RGt(macdData.histogram, R(0)) THEN <<3, 5>>
                    ELSE <<2, 5>>),
                strategy |-> [s EXCEPT !.lastSignal = "BUY"]]
          ELSE IF bearishCrossover /\ s.lastSignal # "SELL"
          THEN [signal |-> Signal("SELL", currentCandle,
                    IF macdBelowZero THEN <<4, 5>>
                    ELSE IF RLt(macdData.histogram, R(0)) THEN <<3, 5>>
                    ELSE <<2, 5>>),
                strategy |-> [s EXCEPT !.lastSignal = "SELL"]]
          ELSE [signal |-> Signal("HOLD", currentCandle, R(0)),
                strategy |-> s]

\* the crossover rule of analyze(), on the current and previous MACD data
MACD_decide(s, currentCandle, macdData, prevMACDData) ==
    IF macdData.null \/ prevMACDData.null
    THEN [signal |-> Signal("HOLD", currentCandle, R(0)), strategy |-> s]
    ELSE
      LET bullishCrossover ==
              /\ RLe(prevMACDData.macd, prevMACDData.signal)
              /\ RGt(macdData.macd, macdData.signal)
          bearishCrossover ==
              /\ RGe(prevMACDData.macd, prevMACDData.signal)
              /\ RLt(macdData.macd, macdData.signal)
          macdAboveZero == RGt(macdData.macd, R(0))
          macdBelowZero == RLt(macdData.macd, R(0))
      IN  IF bullishCrossover /\ s.lastSignal # "BUY"
          THEN [signal |-> Signal("BUY", currentCandle,
                    IF macdAboveZero THEN <<4, 5>>
                    ELSE IF RGt(macdData.histogram, R(0)) THEN <<3, 5>>
                    ELSE <<2, 5>>),
                strategy |-> [s EXCEPT !.lastSignal = "BUY"]]
          ELSE IF bearishCrossover /\ s.lastSignal # "SELL"
          THEN [signal |-> Signal("SELL", currentCandle,
                    IF macdBelowZero THEN <<4, 5>>
                    ELSE IF RLt(macdData.histogram, R(0)) THEN <<3, 5>>
                    ELSE <<2, 5>>),
                strategy |-> [s EXCEPT !.lastSignal = "SELL"]]
          ELSE [signal |-> Signal("HOLD", currentCandle, R(0)),
                strategy |-> s]

MACD_analyze(s, cs) ==
    IF MACD_warmingUp(s, cs)
    THEN [signal |-> Signal("HOLD", Last(cs), R(0)), strategy |-> s]
    ELSE MACD_decide(s, Last(cs), MACD_calculateMACD(s, cs),
                     MACD_calculateMACD(s, ButLast(cs)))

(***************************************************************************)
(* RSI_MA_ComboStrategy                                                    *)
(***************************************************************************)
NewCombo(rsiPeriod, rsiOversold, rsiOverbought, maShortPeriod, maLongPeriod) ==
    [kind |-> "Combo", rsiPeriod |-> rsiPeriod, rsiOversold |-> rsiOversold,
     rsiOverbought |-> rsiOverbought, maShortPeriod |-> maShortPeriod,
     maLongPeriod |-> maLongPeriod, lastSignal |-> "HOLD"]

Combo_calculateRSI(s, cs) ==
    IF Len(cs) < s.rsiPeriod + 1 THEN R(50)
    ELSE
      LET recentChanges == LastN(Changes(cs), s.rsiPeriod)
          avgGain == RNorm(<<Gains(recentChanges), s.rsiPeriod>>)
          avgLoss == RNorm(<<Losses(recentChanges), s.rsiPeriod>>)
      IN  IF avgLoss = R(0) THEN R(100)
          ELSE LET rs == RDiv(avgGain, avgLoss)
               IN  RSub(R(100), RDiv(R(100), RAdd(R(1), rs)))

Combo_calculateMA(cs, period) ==
    IF Len(cs) < period THEN R(Last(cs).close)
    ELSE RNorm(<<SumClose(LastN(cs, period)), period>>)

\* faulty variant: the weakest BUY tier is tried first
Combo_ladder_weakFirst(s, rsi, prevRSI, shortMA, longMA, prevShortMA, prevLongMA) ==
    LET bullishTrend == RGt(shortMA, longMA)
        bearishTrend == RLt(shortMA, longMA)
        trendStrength == RAbs(RDiv(RSub(shortMA, longMA), longMA))
        rsiOversoldRecovery ==
            RLe(prevRSI, R(s.rsiOversold)) /\ RGt(rsi, R(s.rsiOversold))
        maUpCross == RLe(prevShortMA, prevLongMA) /\ RGt(shortMA, longMA)
        strongBullishTrend == bullishTrend /\ RGt(trendStrength, <<1, 1000>>)
        rsiOverboughtDecline ==
            RGe(prevRSI, R(s.rsiOverbought)) /\ RLt(rsi, R(s.rsiOverbought))
        maDownCross == RGe(prevShortMA, prevLongMA) /\ RLt(shortMA, longMA)
        strongBearishTrend == bearishTrend /\ RGt(trendStrength, <<1, 1000>>)
    IN  IF maUpCross /\ RLt(rsi, R(60)) /\ s.lastSignal # "BUY"
        THEN <<"BUY", <<1, 2>>>>
        ELSE IF rsiOversoldRecovery /\ strongBullishTrend
                /\ s.lastSignal # "BUY"
        THEN <<"BUY", <<7, 10>>>>
        ELSE IF rsiOversoldRecovery /\ maUpCross /\ s.lastSignal # "BUY"
        THEN <<"BUY", <<9, 10>>>>
        ELSE IF rsiOverboughtDecline /\ maDownCross /\ s.lastSignal # "SELL"
        THEN <<"SELL", <<9, 10>>>>
        ELSE IF rsiOverboughtDecline /\ strongBearishTrend
                /\ s.lastSignal # "SELL"
        THEN <<"SELL", <<7, 10>>>>
        ELSE IF maDownCross /\ RGt(rsi, R(40)) /\ s.lastSignal # "SELL"
        THEN <<"SELL", <<1, 2>>>>
        ELSE <<"HOLD", R(0)>>

\* the ladder of analyze() on the indicator values:
\* <<type, confidence>> of the first rung that matches, or HOLD
Combo_ladder(s, rsi, prevRSI, shortMA, longMA, prevShortMA, prevLongMA) ==
    LET bullishTrend == RGt(shortMA, longMA)
        bearishTrend == RLt(shortMA, longMA)
        trendStrength == RAbs(RDiv(RSub(shortMA, longMA), longMA))
        rsiOversoldRecovery ==
            RLe(prevRSI, R(s.rsiOversold)) /\ RGt(rsi, R(s.rsiOversold))
        maUpCross == RLe(prevShortMA, prevLongMA) /\ RGt(shortMA, longMA)
        strongBullishTrend == bullishTrend /\ RGt(trendStrength, <<1, 1000>>)
        rsiOverboughtDecline ==
            RGe(prevRSI, R(s.rsiOverbought)) /\ RLt(rsi, R(s.rsiOverbought))
        maDownCross == RGe(prevShortMA, prevLongMA) /\ RLt(shortMA, longMA)
        strongBearishTrend == bearishTrend /\ RGt(trendStrength, <<1, 1000>>)
    IN  IF rsiOversoldRecovery /\ maUpCross /\ s.lastSignal # "BUY"
        THEN <<"BUY", <<9, 10>>>>
        ELSE IF rsiOversoldRecovery /\ strongBullishTrend
                /\ s.lastSignal # "BUY"
        THEN <<"BUY", <<7, 10>>>>
        ELSE IF maUpCross /\ RLt(rsi, R(60)) /\ s.lastSignal # "BUY"
        THEN <<"BUY", <<1, 2>>>>
        ELSE IF rsiOverboughtDecline /\ maDownCross /\ s.lastSignal # "SELL"
        THEN <<"SELL", <<9, 10>>>>
        ELSE IF rsiOverboughtDecline /\ strongBearishTrend
                /\ s.lastSignal # "SELL"
        THEN <<"SELL", <<7, 10>>>>
        ELSE IF maDownCross /\ RGt(rsi, R(40)) /\ s.lastSignal # "SELL"
        THEN <<"SELL", <<1, 2>>>>
        ELSE <<"HOLD", R(0)>>

\* the signal and the latch update for the rung that fired
Combo_emit(s, currentCandle, rung) ==
    [signal |-> Signal(rung[1], currentCandle, rung[2]),
     strategy |-> IF rung[1] = "HOLD" THEN s
                  ELSE [s EXCEPT !.lastSignal = rung[1]]]

Combo_analyze(s, cs) ==
    IF Len(cs) < Max(s.rsiPeriod, s.maLongPeriod) + 5
    THEN [signal |-> Signal("HOLD", Last(cs), R(0)), strategy |-> s]
    ELSE Combo_emit(s, Last(cs),
            Combo_ladder(s,
                Combo_calculateRSI(s, cs),
                Combo_calculateRSI(s, ButLast(cs)),
                Combo_calculateMA(cs, s.maShortPeriod),
                Combo_calculateMA(cs, s.maLongPeriod),
                Combo_calculateMA(ButLast(cs), s.maShortPeriod),
                Combo_calculateMA(ButLast(cs), s.maLongPeriod)))

(***************************************************************************)
(* ScalpingStrategy                                                        *)
(* positions is the Map in insertion order: a sequence of                  *)
(* [type, entry, timestamp, candles]; recentTrades is the array of         *)
(* [timestamp, profit].                                                    *)
(***************************************************************************)
NewScalping(spreadThreshold, volumeThreshold, quickProfitTarget, maxHoldTime, volatilityPeriod, minVolatility) ==
    [kind |-> "Scalping", spreadThreshold |-> spreadThreshold,
     volumeThreshold |-> volumeThreshold,
     quickProfitTarget |-> quickProfitTarget, maxHoldTime |-> maxHoldTime,
     volatilityPeriod |-> volatilityPeriod, minVolatility |-> minVolatility,
     positions |-> <<>>, recentTrades |-> <<>>]

OneHourMs == 3600000

Scalping_createHoldSignal(candle) == Signal("HOLD", candle, R(0))

Scalping_updatePositions(s) ==
    [s EXCEPT !.positions =
        [k \in 1..Len(s.positions) |->
            [s.positions[k] EXCEPT !.candles = @ + 1]]]

Scalping_cleanOldTrades(s, currentTime) ==
    LET oneHourAgo == currentTime - OneHourMs
    IN  [s EXCEPT !.recentTrades =
            SelectSeq(s.recentTrades, LAMBDA tr : tr.timestamp > oneHourAgo)]

\* faulty variant: the key stays in the Map
MapDelete_keeps(ps, type) == ps

\* Map.delete(positionType)
MapDelete(ps, type) == SelectSeq(ps, LAMBDA e : e.type # type)

\* Map.set(positionType, value): replaces in place, or appends a new key
MapSet(ps, type, entry, timestamp) ==
    LET v == [type |-> type, entry |-> entry, timestamp |-> timestamp,
              candles |-> 0]
    IN  IF \E k \in 1..Len(ps) : ps[k].type = type
        THEN [k \in 1..Len(ps) |-> IF ps[k].type = type THEN v ELSE ps[k]]
        ELSE Append(ps, v)

Scalping_calculateMomentum(cs) ==
    LET recent == LastN(cs, 3)
        ch == Changes(recent)
        upMoves == Cardinality({k \in 1..Len(ch) : ch[k] > 0})
        downMoves == Cardinality({k \in 1..Len(ch) : ch[k] < 0})
    IN  [strength |-> RNorm(<<Abs(upMoves - downMoves), Len(recent)>>),
         direction |-> IF upMoves > downMoves THEN "UP"
                       ELSE IF downMoves > upMoves THEN "DOWN"
                       ELSE "NEUTRAL"]

\* only the direction is read by the callers
Scalping_analyzePriceAction(cs) ==
    LET current == Last(cs)
        prev == cs[Len(cs) - 1]
        instantChange == RNorm(<<current.close - prev.close, prev.close>>)
    IN  IF RGt(instantChange, <<1, 10000>>) THEN "UP"
        ELSE IF RLt(instantChange, <<-1, 10000>>) THEN "DOWN"
        ELSE "SIDEWAYS"

RECURSIVE SumVolume(_)
SumVolume(cs) ==
    IF cs = <<>> THEN 0 ELSE Last(cs).volume + SumVolume(ButLast(cs))

Scalping_calculateAverageVolume(cs, period) ==
    LET recentCandles == LastN(cs, period)
    IN  RNorm(<<SumVolume(recentCandles), Len(recentCandles)>>)

Scalping_checkVolumeSpike(s, cs) ==
    RGe(RDiv(R(Last(cs).volume), Scalping_calculateAverageVolume(cs, 20)),
        s.volumeThreshold)

\* profit of a position at the current close, in percent
Scalping_profit(pos, close) ==
    LET priceChange == RMul(RNorm(<<close - pos.entry, pos.entry>>), R(100))
    IN  IF pos.type = "LONG" THEN priceChange ELSE RSub(R(0), priceChange)

\* faulty variant: the hold limit is tested one candle late
Scalping_maxHoldExit_late(s, pos, profit) ==
    pos.candles > s.maxHoldTime /\ RLe(profit, R(0))

\* faulty variant: the hold limit closes a winning position too
Scalping_maxHoldExit_anyProfit(s, pos, profit) == pos.candles >= s.maxHoldTime

\* position.candles >= this.maxHoldTime && profit <= 0
Scalping_maxHoldExit(s, pos, profit) ==
    pos.candles >= s.maxHoldTime /\ RLe(profit, R(0))

\* the four exit tests for one position, in the order of the source:
\* <<reason, confidence>> of the first that matches, or none
Scalping_exitRule(s, pos, profit, momentumDirection) ==
    LET isLong == pos.type = "LONG"
        momentumReversed == \/ isLong /\ momentumDirection = "DOWN"
                            \/ ~isLong /\ momentumDirection = "UP"
    IN  IF RGe(profit, RMul(s.quickProfitTarget, <<1, 2>>))
        THEN <<"quick_profit", <<9, 10>>>>
        ELSE IF Scalping_maxHoldExit(s, pos, profit)
        THEN <<"max_hold_losing", <<7, 10>>>>
        ELSE IF momentumReversed /\ pos.candles >= 2
                /\ RLt(profit, RMul(s.quickProfitTarget, <<1, 2>>))
        THEN <<"momentum_reversal", <<4, 5>>>>
        ELSE IF RLe(profit, RMul(RSub(R(0), s.quickProfitTarget), R(2)))
        THEN <<"stop_loss", <<4, 5>>>>
        ELSE <<"none", R(0)>>

\* closing a position: the signal returned and the bookkeeping done with it
Scalping_close(s, currentCandle, pos, profit, exit) ==
    [signal |-> Signal(IF pos.type = "LONG" THEN "SELL" ELSE "BUY",
                       currentCandle, exit[2]),
     strategy |->
        [s EXCEPT !.positions = MapDelete(@, pos.type),
                  !.recentTrades =
                      Append(@, [timestamp |-> currentCandle.timestamp,
                                 profit |-> profit])],
     reason |-> exit[1]]

\* the index of the first position (in Map order) with a matching exit, or 0
RECURSIVE Scalping_firstExit(_, _, _)
Scalping_firstExit(s, cs, k) ==
    IF k > Len(s.positions) THEN 0
    ELSE IF Scalping_exitRule(s, s.positions[k],
                Scalping_profit(s.positions[k], Last(cs).close),
                Scalping_calculateMomentum(cs).direction)[1] # "none"
    THEN k
    ELSE Scalping_firstExit(s, cs, k + 1)

Scalping_exitAt(s, cs, k) ==
    IF k = 0
    THEN [signal |-> Scalping_createHoldSignal(Last(cs)), strategy |-> s,
          reason |-> "none"]
    ELSE Scalping_close(s, Last(cs), s.positions[k],
            Scalping_profit(s.positions[k], Last(cs).close),
            Scalping_exitRule(s, s.positions[k],
                Scalping_profit(s.positions[k], Last(cs).close),
                Scalping_calculateMomentum(cs).direction))

Scalping_checkExitConditions(s, cs) ==
    Scalping_exitAt(s, cs, Scalping_firstExit(s, cs, 1))

\* opening a position: the signal returned and the Map entry set with it
Scalping_open(s, current, signal, confidence, reason) ==
    [signal |-> Signal(signal, current, confidence),
     strategy |->
        [s EXCEPT !.positions =
            MapSet(@, IF signal = "BUY" THEN "LONG" ELSE "SHORT",
                   current.close, current.timestamp)],
     reason |-> reason]

Scalping_getInstantScalpSignal(s, cs) ==
    LET current == Last(cs)
        prev == cs[Len(cs) - 1]
        prev2 == cs[Len(cs) - 2]
        instantChange == RNorm(<<current.close - prev.close, prev.close>>)
        prevChange == RNorm(<<prev.close - prev2.close, prev2.close>>)
        volumeBoost == RGt(R(current.volume), RMul(R(prev.volume), <<11, 10>>))
        significantMove == RGt(RAbs(instantChange), <<3, 10000>>)
        accelerating == /\ Sign(instantChange[1]) = Sign(prevChange[1])
                        /\ RGt(RAbs(instantChange), RAbs(prevChange))
    IN  IF significantMove /\ (accelerating \/ volumeBoost)
        THEN Scalping_open(s, current,
                 IF RGt(instantChange, R(0)) THEN "BUY" ELSE "SELL",
                 <<4, 5>>, "instant_scalp")
        ELSE [signal |-> Scalping_createHoldSignal(current), strategy |-> s,
              reason |-> "none"]

\* the fallback entry of checkEntryConditions
Scalping_fallbackEntry(s, currentCandle, priceAction, momentumStrength, volumeRatio) ==
    IF priceAction = "UP" /\ (volumeRatio \/ RGt(momentumStrength, <<1, 5>>))
    THEN Scalping_open(s, currentCandle, "BUY", <<7, 10>>,
                       "aggressive_bullish")
    ELSE IF priceAction = "DOWN"
            /\ (volumeRatio \/ RGt(momentumStrength, <<1, 5>>))
    THEN Scalping_open(s, currentCandle, "SELL", <<7, 10>>,
                       "aggressive_bearish")
    ELSE [signal |-> Signal("HOLD", currentCandle, R(0)), strategy |-> s,
          reason |-> ""]

\* the instant signal if there is one, else the fallback
Scalping_firstEntry(instant, fallback) ==
    IF instant.signal.type # "HOLD" THEN instant ELSE fallback

\* faulty variant: the guard never sees a position
Scalping_hasPositions_never(s) == FALSE

\* this.positions.size > 0
Scalping_hasPositions(s) == Len(s.positions) > 0

Scalping_checkEntryConditions(s, cs) ==
    IF Scalping_hasPositions(s)
    THEN [signal |-> Scalping_createHoldSignal(Last(cs)), strategy |-> s,
          reason |-> "none"]
    ELSE Scalping_firstEntry(
            Scalping_getInstantScalpSignal(s, cs),
            Scalping_fallbackEntry(s, Last(cs),
                Scalping_analyzePriceAction(cs),
                Scalping_calculateMomentum(cs).strength,
                Scalping_checkVolumeSpike(s, cs)))

\* exits first; an entry is tried only when no exit fired
Scalping_exitThenEntry(exitSignal, cs) ==
    IF exitSignal.signal.type # "HOLD" THEN exitSignal
    ELSE Scalping_checkEntryConditions(exitSignal.strategy, cs)

\* analyze() with the metadata reason of the signal it returns
Scalping_analyzeWhy(s, cs) ==
    IF Len(cs) < s.volatilityPeriod + 5
    THEN [signal |-> Scalping_createHoldSignal(Last(cs)), strategy |-> s,
          reason |-> "no_signal"]
    ELSE Scalping_exitThenEntry(
            Scalping_checkExitConditions(
                Scalping_cleanOldTrades(Scalping_updatePositions(s),
                                        Last(cs).timestamp),
                cs),
            cs)

Scalping_dropReason(r) == [signal |-> r.signal, strategy |-> r.strategy]

Scalping_analyze(s, cs) == Scalping_dropReason(Scalping_analyzeWhy(s, cs))

(***************************************************************************)
(* Strategy: the abstract class and the instances under test               *)
(***************************************************************************)
\* an implementation of the abstract Strategy about which nothing is known;
\* it may or may not expose a longPeriod parameter
NewStub(parameters) == [kind |-> "Stub", parameters |-> parameters]

\* an implementation whose analyze() may raise instead of returning
NewRaisingStub(parameters) ==
    [kind |-> "Stub", parameters |-> parameters, raises |-> TRUE]

MayRaise(s) == "raises" \in DOMAIN s

\* Strategy.getName(): the name handed to super() by the constructor
getName(s) ==
    IF s.kind = "Stub" THEN s.parameters.name
    ELSE IF s.kind = "MAC" THEN "Moving Average Crossover"
    ELSE IF s.kind = "RSI" THEN "RSI Strategy"
    ELSE IF s.kind = "BB" THEN "Bollinger Bands"
    ELSE IF s.kind = "MACD" THEN "MACD Strategy"
    ELSE IF s.kind = "Combo" THEN "RSI + MA Combo"
    ELSE "Advanced Scalping Strategy"

\* Strategy.getParameters(): the record handed to super() by the constructor
getParameters(s) ==
    IF s.kind = "Stub" THEN s.parameters
    ELSE IF s.kind = "MAC"
    THEN [shortPeriod |-> s.shortPeriod, longPeriod |-> s.longPeriod]
    ELSE IF s.kind = "RSI"
    THEN [period |-> s.period, oversoldThreshold |-> s.oversoldThreshold,
          overboughtThreshold |-> s.overboughtThreshold]
    ELSE IF s.kind = "BB"
    THEN [period |-> s.period, standardDeviations |-> s.standardDeviations]
    ELSE IF s.kind = "MACD"
    THEN [fastPeriod |-> s.fastPeriod, slowPeriod |-> s.slowPeriod,
          signalPeriod |-> s.signalPeriod]
    ELSE IF s.kind = "Combo"
    THEN [rsiPeriod |-> s.rsiPeriod, rsiOversold |-> s.rsiOversold,
          rsiOverbought |-> s.rsiOverbought,
          maShortPeriod |-> s.maShortPeriod, maLongPeriod |-> s.maLongPeriod]
    ELSE [spreadThreshold |-> s.spreadThreshold,
          volumeThreshold |-> s.volumeThreshold,
          quickProfitTarget |-> s.quickProfitTarget,
          maxHoldTime |-> s.maxHoldTime,
          volatilityPeriod |-> s.volatilityPeriod,
          minVolatility |-> s.minVolatility]

\* the six concrete classes, constructed with short periods
Instances ==
    { NewMAC(2, 3),
      NewRSI(2, 30, 70),
      NewBB(3, 1),
      NewMACD(2, 3, 2),
      NewCombo(2, 30, 70, 2, 3),
      NewScalping(<<1, 50>>, <<3, 2>>, <<3, 20>>, 2, 1, <<1, 10>>) }

Stubs == { NewStub([name |-> "stub"]),
           NewStub([name |-> "stub", longPeriod |-> 2]),
           NewStub([name |-> "stub", longPeriod |-> 0]) }

\* strategy.analyze(candles) of a concrete class
analyze(s, cs) ==
    IF s.kind = "MAC" THEN MAC_analyze(s, cs)
    ELSE IF s.kind = "RSI" THEN RSI_analyze(s, cs)
    ELSE IF s.kind = "BB" THEN BB_analyze(s, cs)
    ELSE IF s.kind = "MACD" THEN MACD_analyze(s, cs)
    ELSE IF s.kind = "Combo" THEN Combo_analyze(s, cs)
    ELSE Scalping_analyze(s, cs)

\* what an unknown implementation may return for a window
StubSignals(cs) ==
    { Signal(ty, Last(cs), c) : ty \in {"BUY", "SELL"}, c \in {<<1, 10>>, <<1, 2>>} }
    \cup { Signal("HOLD", Last(cs), c) : c \in {R(0), <<1, 2>>} }

\* every outcome analyze() may have: one for a concrete class
Outcomes(s, cs) ==
    IF s.kind = "Stub"
    THEN { [signal |-> x, strategy |-> s] : x \in StubSignals(cs) }
    ELSE { analyze(s, cs) }

\* the window lengths below which each class's warm-up guard answers
MinLookback(s) ==
    IF s.kind = "MAC" THEN s.longPeriod
    ELSE IF s.kind = "RSI" THEN s.period + 1
    ELSE IF s.kind = "BB" THEN s.period
    ELSE IF s.kind = "MACD" THEN s.slowPeriod + s.signalPeriod + 5
    ELSE IF s.kind = "Combo" THEN Max(s.rsiPeriod, s.maLongPeriod) + 5
    ELSE IF s.kind = "Scalping" THEN s.volatilityPeriod + 5
    ELSE 0

(***************************************************************************)
(* Inputs                                                                  *)
(***************************************************************************)
\* the closes and volumes candles are drawn from, per class
Closes(s) ==
    IF s.kind \in {"MACD", "Combo"} THEN {100, 102}
    ELSE IF s.kind = "Stub" THEN {100, 110}
    ELSE {100, 101, 107}

Volumes(s) == {1000}

\* closes of directly fed windows: for Scalping, moves of 0.05% and 0.4%
\* around its thresholds (0.03% entry, 0.075% profit, 0.3% stop)
FeedCloses(s) ==
    IF s.kind = "Scalping" THEN {10000, 10005, 10040} ELSE Closes(s)

(***************************************************************************)
(* Backtester                                                              *)
(* The object is the record of its mutable fields                          *)
(* [currentBalance, position, trades, maxBalance]; initialBalance is set   *)
(* once by the constructor.                                                *)
(***************************************************************************)
backtesterVars == <<initialBalance, currentBalance, position, trades,
                    maxBalance, tradesId>>

\* the fields as one record
Backtester ==
    [currentBalance |-> currentBalance, position |-> position,
     trades |-> trades, maxBalance |-> maxBalance, tradesId |-> tradesId]

\* constructor(initialBalance)
NewBacktester(b) ==
    [currentBalance |-> R(b), position |-> R(0), trades |-> <<>>,
     maxBalance |-> R(b), tradesId |-> 0]

\* faulty variant: the high-water mark of the run before is kept
reset_keepsHighWater(b, initial) ==
    [b EXCEPT !.currentBalance = R(initial), !.position = R(0),
              !.trades = <<>>, !.tradesId = @ + 1]

\* `this.trades = []` makes the field refer to a new array
reset(b, initial) ==
    [b EXCEPT !.currentBalance = R(initial), !.position = R(0),
              !.trades = <<>>, !.tradesId = @ + 1,
              !.maxBalance = R(initial)]

\* faulty variant: the position is not looked at
CanBuy_whileHolding(b) == RGt(b.currentBalance, R(100))

\* this.currentBalance > 100 && this.position === 0
CanBuy(b) == RGt(b.currentBalance, R(100)) /\ b.position = R(0)

\* this.position > 0
CanSell(b) == RGt(b.position, R(0))

\* faulty variant: the whole balance is invested
BuyQuantity_wholeBalance(balance, price) == RDiv(balance, price)

\* (this.currentBalance * 0.95) / price
BuyQuantity(balance, price) == RDiv(RMul(balance, <<95, 100>>), price)

\* faulty variant: a fee is taken out of the cash kept back
CashAfterBuy_lessFee(balance) == RMul(balance, <<4, 100>>)

\* this.currentBalance * 0.05
CashAfterBuy(balance) == RMul(balance, <<5, 100>>)

\* faulty variant: the high-water mark follows the balance down
HighWater_overwritten(highWater, newBalance) == newBalance

\* Math.max(this.maxBalance, this.currentBalance)
HighWater(highWater, newBalance) == RMax(highWater, newBalance)

executeSignal(b, signal) ==
    LET price == R(signal.price)
    IN  IF signal.type = "BUY" /\ CanBuy(b)
        THEN LET quantity == BuyQuantity(b.currentBalance, price)
             IN  [b EXCEPT
                    !.position = quantity,
                    !.currentBalance = CashAfterBuy(b.currentBalance),
                    !.trades = Append(@, [type |-> "BUY",
                                          price |-> signal.price,
                                          timestamp |-> signal.timestamp,
                                          quantity |-> quantity])]
        ELSE IF signal.type = "SELL" /\ CanSell(b)
        THEN LET saleValue == RMul(b.position, price)
                 newBalance == RAdd(b.currentBalance, saleValue)
             IN  [b EXCEPT
                    !.currentBalance = newBalance,
                    !.trades = Append(@, [type |-> "SELL",
                                          price |-> signal.price,
                                          timestamp |-> signal.timestamp,
                                          quantity |-> b.position]),
                    !.position = R(0),
                    !.maxBalance = HighWater(b.maxBalance, newBalance)]
        ELSE b

DefaultStart == 20

\* faulty variant: the parameter is never read
StartIndex_alwaysDefault(s) == DefaultStart

\* strategy.getParameters().longPeriod || 20
StartIndex(s) ==
    LET p == getParameters(s)
    IN  IF "longPeriod" \in DOMAIN p /\ p.longPeriod # 0 THEN p.longPeriod
        ELSE DefaultStart

\* faulty variant: the threshold itself passes the gate
Accepted_atThreshold(signal) ==
    signal.type # "HOLD" /\ RGe(signal.confidence, <<1, 10>>)

\* the gate of the loop body
Accepted(signal) ==
    signal.type # "HOLD" /\ RGt(signal.confidence, <<1, 10>>)

\* faulty variant: a pair sold at its buy price counts as a win
IsWin_orEqual(buy, sell) == sell.price >= buy.price

\* sellTrades[i].price > buyTrades[i].price
IsWin(buy, sell) == sell.price > buy.price

calculateResults(b, initial) ==
    LET buyTrades == SelectSeq(b.trades, LAMBDA tr : tr.type = "BUY")
        sellTrades == SelectSeq(b.trades, LAMBDA tr : tr.type = "SELL")
        pairs == 1..Min(Len(buyTrades), Len(sellTrades))
        winningTrades ==
            Cardinality({k \in pairs : IsWin(buyTrades[k], sellTrades[k])})
        losingTrades ==
            Cardinality({k \in pairs : ~IsWin(buyTrades[k], sellTrades[k])})
    IN  [totalTrades |-> Len(buyTrades),
         winningTrades |-> winningTrades,
         losingTrades |-> losingTrades,
         winRate |-> IF Len(buyTrades) > 0
                     THEN RMul(RNorm(<<winningTrades, Len(buyTrades)>>), R(100))
                     ELSE R(0),
         totalReturn |-> RMul(RDiv(RSub(b.currentBalance, R(initial)),
                                   R(initial)), R(100)),
         maxDrawdown |-> RMul(RDiv(RSub(b.maxBalance, b.currentBalance),
                                   b.maxBalance), R(100)),
         sharpeRatio |-> R(0),
         trades |-> b.trades]

(***************************************************************************)
(* Feeding a strategy directly: analyze() on a window that grows by one    *)
(* candle per call, starting from a single candle                          *)
(***************************************************************************)
\* what the caller of backtest() holds
callerVars == <<earlier, strategies, comparisons, runs>>

\* backtest() or analyze() is called once, directly
NoCaller ==
    earlier = Null /\ strategies = <<>> /\ comparisons = <<>> /\ runs = <<>>

\* the TradingBot and what runs on its behalf
botVars == <<bot, liveTrader, timers, tasks, log, lifecycle, market, cli>>

\* no TradingBot has been constructed
NoBot ==
    /\ bot = Null
    /\ liveTrader = Null
    /\ timers = {}
    /\ tasks = <<>>
    /\ log = <<>>
    /\ lifecycle = Null
    /\ market = 0
    /\ cli = Null

\* bookkeeping shared by every analyze() call: the instance and its twin
\* see the same window
Call(out, window) ==
    /\ strategy' = out.strategy
    /\ sig' = out.signal
    /\ prevStrategy' = strategy
    /\ emitted' = IF out.signal.type = "HOLD" THEN emitted
                  ELSE Append(emitted, out.signal)
    /\ calls' = Append(calls, Len(window))
    /\ IF twin.kind = "Stub"
       THEN twin' = twin /\ twinSig' = twinSig
       ELSE LET t == analyze(twin, window)
            IN  twin' = t.strategy /\ twinSig' = t.signal

\* Bollinger instances with other multipliers: none and two deviations
BandInstances == { NewBB(3, 0), NewBB(3, 2) }

InitFeed ==
    /\ strategy \in Instances \cup BandInstances
    /\ twin = strategy
    /\ candles = <<>>
    /\ pc = "feed"
    /\ i = 0
    /\ initialBalance = 10000
    /\ currentBalance = R(10000)
    /\ position = R(0)
    /\ trades = <<>>
    /\ maxBalance = R(10000)
    /\ tradesId = 0
    /\ sig = NoSignal
    /\ twinSig = NoSignal
    /\ emitted = <<>>
    /\ prevStrategy = strategy
    /\ calls = <<>>
    /\ result = Null
    /\ NoCaller
    /\ NoBot

Feed ==
    /\ pc = "feed"
    /\ Len(candles) < MinLookback(strategy) + MaxTail
    /\ \E close \in FeedCloses(strategy), volume \in Volumes(strategy) :
         LET window == Append(candles, Candle(Len(candles) + 1, close, volume))
         IN  /\ candles' = window
             /\ \E out \in Outcomes(strategy, window) : Call(out, window)
    /\ UNCHANGED <<pc, i, backtesterVars, result>>
    /\ UNCHANGED callerVars
    /\ UNCHANGED botVars

NextFeed == Feed

SpecFeed == InitFeed /\ [][NextFeed]_vars

\* ScalpingStrategy.analyze on a growing window whose closes move by 0.02%
\* to 0.4%: below, between and beyond its profit and stop thresholds
ScalpCloses == {10000, 10005, 10007, 10009, 10011, 10040}

WarmUpCloses == {10000, 10011}

InitScalp ==
    /\ strategy = NewScalping(<<1, 50>>, <<3, 2>>, <<3, 20>>, 2, 1, <<1, 10>>)
    /\ twin = strategy
    /\ candles = <<>>
    /\ pc = "scalp"
    /\ i = 0
    /\ initialBalance = 10000
    /\ currentBalance = R(10000)
    /\ position = R(0)
    /\ trades = <<>>
    /\ maxBalance = R(10000)
    /\ tradesId = 0
    /\ sig = NoSignal
    /\ twinSig = NoSignal
    /\ emitted = <<>>
    /\ prevStrategy = strategy
    /\ calls = <<>>
    /\ result = Null
    /\ NoCaller
    /\ NoBot

\* the closes a window of this length may be extended with: the run-in is
\* flat
NextCloses(window) ==
    IF window = <<>> THEN WarmUpCloses
    ELSE IF Len(window) < MinLookback(strategy) - 1 THEN {Last(window).close}
    ELSE ScalpCloses

FeedScalp ==
    /\ pc = "scalp"
    /\ Len(candles) < MinLookback(strategy) + MaxTail
    /\ \E close \in NextCloses(candles), volume \in Volumes(strategy) :
         LET window == Append(candles, Candle(Len(candles) + 1, close, volume))
         IN  /\ candles' = window
             /\ \E out \in Outcomes(strategy, window) : Call(out, window)
    /\ UNCHANGED <<pc, i, backtesterVars, result>>
    /\ UNCHANGED callerVars
    /\ UNCHANGED botVars

NextScalp == FeedScalp

SpecScalp == InitScalp /\ [][NextScalp]_vars

\* RSI_MA_ComboStrategy.analyze on a growing window: a flat run-in, then
\* closes that move the two-change RSI through 40 and 60 while the averages
\* cross or stay crossed
ComboCloses == {193, 197, 198, 199, 200, 201, 202, 203, 207}

InitCombo ==
    /\ strategy = NewCombo(2, 40, 60, 2, 3)
    /\ twin = strategy
    /\ candles = <<>>
    /\ pc = "combo"
    /\ i = 0
    /\ initialBalance = 10000
    /\ currentBalance = R(10000)
    /\ position = R(0)
    /\ trades = <<>>
    /\ maxBalance = R(10000)
    /\ tradesId = 0
    /\ sig = NoSignal
    /\ twinSig = NoSignal
    /\ emitted = <<>>
    /\ prevStrategy = strategy
    /\ calls = <<>>
    /\ result = Null
    /\ NoCaller
    /\ NoBot

\* the closes a window may be extended with: the calls of the run-in answer
\* HOLD whatever the closes, so it is flat up to its last candle
ComboNext(window) ==
    IF Len(window) < MinLookback(strategy) - 2 THEN {200}
    ELSE IF Len(window) = MinLookback(strategy) - 2 THEN {198, 200, 202}
    ELSE ComboCloses

FeedCombo ==
    /\ pc = "combo"
    /\ Len(candles) < MinLookback(strategy) + MaxTail
    /\ \E close \in ComboNext(candles) :
         LET window == Append(candles, Candle(Len(candles) + 1, close, 1000))
         IN  /\ candles' = window
             /\ \E out \in Outcomes(strategy, window) : Call(out, window)
    /\ UNCHANGED <<pc, i, backtesterVars, result>>
    /\ UNCHANGED callerVars
    /\ UNCHANGED botVars

NextCombo == FeedCombo

SpecCombo == InitCombo /\ [][NextCombo]_vars

(***************************************************************************)
(* Backtester.backtest(strategy, candles)                                  *)
(***************************************************************************)
RECURSIVE SeqsUpTo(_, _)
SeqsUpTo(S, n) ==
    IF n = 0 THEN {<<>>}
    ELSE LET shorter == SeqsUpTo(S, n - 1)
         IN  shorter \cup {Append(t, x) : t \in shorter, x \in S}

\* closes of the series handed to backtest(): a flat run-in up to the start
\* index followed by up to MaxTail + 1 free candles, or a flat series too
\* short for the loop to run
SeriesCloses(s) ==
    LET start == StartIndex(s)
        flat(n, c) == [k \in 1..n |-> c]
    IN  {flat(n, c) : n \in {0, 1, start - 1}, c \in Closes(s)}
        \cup {flat(start - 1, c) \o t :
                c \in Closes(s), t \in SeqsUpTo(Closes(s), MaxTail + 1)}

Series(s) ==
    {[k \in 1..Len(cl) |-> Candle(k, cl[k], v)] :
        cl \in SeriesCloses(s), v \in Volumes(s)}

InitialBalances == {10000, 100}

Init ==
    /\ strategy \in Instances \cup Stubs
    /\ twin = strategy
    /\ candles \in Series(strategy)
    /\ pc = "idle"
    /\ i = 0
    /\ initialBalance \in InitialBalances
    /\ currentBalance = NewBacktester(initialBalance).currentBalance
    /\ position = NewBacktester(initialBalance).position
    /\ trades = NewBacktester(initialBalance).trades
    /\ maxBalance = NewBacktester(initialBalance).maxBalance
    /\ tradesId = NewBacktester(initialBalance).tradesId
    /\ sig = NoSignal
    /\ twinSig = NoSignal
    /\ emitted = <<>>
    /\ prevStrategy = strategy
    /\ calls = <<>>
    /\ result = Null
    /\ NoCaller
    /\ NoBot

SetBacktester(b) ==
    /\ currentBalance' = b.currentBalance
    /\ position' = b.position
    /\ trades' = b.trades
    /\ maxBalance' = b.maxBalance
    /\ tradesId' = b.tradesId
    /\ UNCHANGED initialBalance

\* faulty variant: the loop starts at the first candle
Enter_fromZero ==
    /\ pc = "idle"
    /\ SetBacktester(reset(Backtester, initialBalance))
    /\ i' = 0
    /\ pc' = "loop"
    /\ UNCHANGED <<strategy, twin, candles, sig, twinSig, emitted,
                   prevStrategy, calls, result>>
    /\ UNCHANGED callerVars
    /\ UNCHANGED botVars

\* entry: this.reset() and the loop initialiser
Enter ==
    /\ pc = "idle"
    /\ SetBacktester(reset(Backtester, initialBalance))
    /\ i' = StartIndex(strategy)
    /\ pc' = "loop"
    /\ UNCHANGED <<strategy, twin, candles, sig, twinSig, emitted,
                   prevStrategy, calls, result>>
    /\ UNCHANGED callerVars
    /\ UNCHANGED botVars

\* faulty variant: a signal the Backtester does not execute is rolled back in
\* the strategy instance
Step_consumerFeedback ==
    /\ pc = "loop"
    /\ i < Len(candles)
    /\ LET historicalCandles == SubSeq(candles, 1, i + 1)
       IN  \E out \in Outcomes(strategy, historicalCandles) :
             LET b == IF Accepted(out.signal)
                      THEN executeSignal(Backtester, out.signal)
                      ELSE Backtester
             IN  /\ Call(IF b = Backtester
                         THEN [out EXCEPT !.strategy = strategy]
                         ELSE out, historicalCandles)
                 /\ SetBacktester(b)
    /\ i' = i + 1
    /\ UNCHANGED <<candles, pc, result>>
    /\ UNCHANGED callerVars
    /\ UNCHANGED botVars

\* one iteration of the for-loop
Step ==
    /\ pc = "loop"
    /\ i < Len(candles)
    /\ LET historicalCandles == SubSeq(candles, 1, i + 1)
       IN  \E out \in Outcomes(strategy, historicalCandles) :
             /\ Call(out, historicalCandles)
             /\ IF Accepted(out.signal)
                THEN SetBacktester(executeSignal(Backtester, out.signal))
                ELSE UNCHANGED backtesterVars
    /\ i' = i + 1
    /\ UNCHANGED <<candles, pc, result>>
    /\ UNCHANGED callerVars
    /\ UNCHANGED botVars

\* faulty variant: an open position is left open
Liquidate_skipped ==
    /\ pc = "loop"
    /\ ~(i < Len(candles))
    /\ pc' = "closed"
    /\ UNCHANGED <<strategy, twin, candles, i, backtesterVars, sig, twinSig,
                   emitted, prevStrategy, calls, result>>
    /\ UNCHANGED callerVars
    /\ UNCHANGED botVars

\* after the loop: close any remaining position at the last candle's close
Liquidate ==
    /\ pc = "loop"
    /\ ~(i < Len(candles))
    /\ IF RGt(position, R(0))
       THEN SetBacktester(executeSignal(Backtester,
                             Signal("SELL", Last(candles), R(1))))
       ELSE UNCHANGED backtesterVars
    /\ pc' = "closed"
    /\ UNCHANGED <<strategy, twin, candles, i, sig, twinSig, emitted,
                   prevStrategy, calls, result>>
    /\ UNCHANGED callerVars
    /\ UNCHANGED botVars

\* return this.calculateResults()
Return ==
    /\ pc = "closed"
    /\ result' = calculateResults(Backtester, initialBalance)
    /\ pc' = "done"
    /\ UNCHANGED <<strategy, twin, candles, i, backtesterVars, sig, twinSig,
                   emitted, prevStrategy, calls>>
    /\ UNCHANGED callerVars
    /\ UNCHANGED botVars

Next == Enter \/ Step \/ Liquidate \/ Return

Spec == Init /\ [][Next]_vars

\* backtest() of an unknown implementation over a series one candle longer,
\* so that a winning pair can be followed by a losing one
LongSeries(s) ==
    {[k \in 1..Len(cl) |-> Candle(k, cl[k], v)] :
        cl \in {<<c, c>> \o t :
                  c \in Closes(s),
                  t \in {u \in SeqsUpTo(Closes(s), MaxTail + 1) :
                            Len(u) = MaxTail + 1}},
        v \in Volumes(s)}

InitLong ==
    /\ strategy = NewStub([name |-> "stub", longPeriod |-> 2])
    /\ twin = strategy
    /\ candles \in LongSeries(strategy)
    /\ pc = "idle"
    /\ i = 0
    /\ initialBalance = 10000
    /\ currentBalance = NewBacktester(initialBalance).currentBalance
    /\ position = NewBacktester(initialBalance).position
    /\ trades = NewBacktester(initialBalance).trades
    /\ maxBalance = NewBacktester(initialBalance).maxBalance
    /\ tradesId = NewBacktester(initialBalance).tradesId
    /\ sig = NoSignal
    /\ twinSig = NoSignal
    /\ emitted = <<>>
    /\ prevStrategy = strategy
    /\ calls = <<>>
    /\ result = Null
    /\ NoCaller
    /\ NoBot

SpecLong == InitLong /\ [][Next]_vars

(***************************************************************************)
(* backtest() called twice on one Backtester                               *)
(***************************************************************************)
ReuseSeries(s) ==
    {[k \in 1..Len(cl) |-> Candle(k, cl[k], v)] :
        cl \in {[k \in 1..(StartIndex(s) - 1) |-> c] \o t :
                  c \in Closes(s),
                  t \in {u \in SeqsUpTo(Closes(s), MaxTail) :
                            Len(u) = MaxTail}},
        v \in Volumes(s)}

InitReuse ==
    /\ strategy = NewStub([name |-> "stub", longPeriod |-> 2])
    /\ twin = strategy
    /\ candles \in ReuseSeries(strategy)
    /\ pc = "idle"
    /\ i = 0
    /\ initialBalance = 10000
    /\ currentBalance = NewBacktester(initialBalance).currentBalance
    /\ position = NewBacktester(initialBalance).position
    /\ trades = NewBacktester(initialBalance).trades
    /\ maxBalance = NewBacktester(initialBalance).maxBalance
    /\ tradesId = NewBacktester(initialBalance).tradesId
    /\ sig = NoSignal
    /\ twinSig = NoSignal
    /\ emitted = <<>>
    /\ prevStrategy = strategy
    /\ calls = <<>>
    /\ result = Null
    /\ NoCaller
    /\ NoBot

\* the caller keeps the BacktestResult, whose `trades` is the Backtester's
\* array itself, and calls backtest() again on the same Backtester with a
\* newly constructed strategy
Again ==
    /\ pc = "done"
    /\ earlier = Null
    /\ earlier' = [result |-> result, tradesId |-> tradesId]
    /\ strategy' = NewStub([name |-> "stub", longPeriod |-> 2])
    /\ twin' = strategy'
    /\ prevStrategy' = strategy'
    /\ pc' = "idle"
    /\ i' = 0
    /\ sig' = NoSignal
    /\ twinSig' = NoSignal
    /\ emitted' = <<>>
    /\ calls' = <<>>
    /\ result' = Null
    /\ UNCHANGED <<candles, backtesterVars, strategies, comparisons, runs>>
    /\ UNCHANGED botVars

NextReuse == Enter \/ Step \/ Liquidate \/ Return \/ Again

SpecReuse == InitReuse /\ [][NextReuse]_vars

(***************************************************************************)
(* StrategyComparator.compareStrategies(strategies, candles)               *)
(***************************************************************************)
MaxStrategies == 2

\* the instances a list handed to compareStrategies() is made of
Contenders ==
    { NewMAC(2, 3),
      NewStub([name |-> "stub", longPeriod |-> 2]),
      NewRaisingStub([name |-> "raising", longPeriod |-> 2]) }

\* the empty list is a list as well
StrategyLists == SeqsUpTo(Contenders, MaxStrategies)

\* one series for all contenders: two equal candles, then MaxTail - 1 free
\* ones
CompareSeries ==
    {[k \in 1..Len(cl) |-> Candle(k, cl[k], 1000)] :
        cl \in {<<c, c>> \o u :
                  c \in {100, 110},
                  u \in {v \in SeqsUpTo({100, 110}, MaxTail - 1) :
                            Len(v) = MaxTail - 1}}}

\* the marker left in `sig` by an analyze() call that raised
Raised == [type |-> "raised"]

InitCompare ==
    /\ strategies \in StrategyLists
    /\ comparisons = <<>>
    /\ earlier = Null
    /\ runs = <<>>
    /\ candles \in CompareSeries
    /\ pc = "compare"
    /\ strategy = IF strategies = <<>>
                  THEN NewStub([name |-> "stub", longPeriod |-> 2])
                  ELSE strategies[1]
    /\ twin = strategy
    /\ i = 0
    /\ initialBalance = 10000
    /\ currentBalance = NewBacktester(initialBalance).currentBalance
    /\ position = NewBacktester(initialBalance).position
    /\ trades = NewBacktester(initialBalance).trades
    /\ maxBalance = NewBacktester(initialBalance).maxBalance
    /\ tradesId = NewBacktester(initialBalance).tradesId
    /\ sig = NoSignal
    /\ twinSig = NoSignal
    /\ emitted = <<>>
    /\ prevStrategy = strategy
    /\ calls = <<>>
    /\ result = Null
    /\ NoBot

\* faulty variant: the loop variable is always the head of the list
LoopStrategy_first(list, done) == list[1]

\* for (const strategy of strategies): the element the loop is at after
\* `done` iterations
LoopStrategy(list, done) == list[Len(done) + 1]

\* the head of one loop iteration: new Backtester(this.initialBalance) and
\* the call of backtest(strategy, candles)
CompareBegin ==
    /\ pc = "compare"
    /\ Len(comparisons) < Len(strategies)
    /\ strategy' = LoopStrategy(strategies, comparisons)
    /\ twin' = strategy'
    /\ prevStrategy' = strategy'
    /\ SetBacktester(NewBacktester(initialBalance))
    /\ i' = 0
    /\ sig' = NoSignal
    /\ twinSig' = NoSignal
    /\ emitted' = <<>>
    /\ calls' = <<>>
    /\ result' = Null
    /\ pc' = "idle"
    /\ UNCHANGED <<candles, callerVars>>
    /\ UNCHANGED botVars

\* faulty variant: the exception is caught in the loop and the strategy is
\* listed without a result
Raise_caught ==
    /\ pc = "loop"
    /\ i < Len(candles)
    /\ MayRaise(strategy)
    /\ sig' = Raised
    /\ comparisons' =
         Append(comparisons, [strategyName |-> getName(strategy),
                              parameters |-> getParameters(strategy),
                              results |-> Null])
    /\ pc' = "compare"
    /\ UNCHANGED <<strategy, twin, candles, i, backtesterVars, twinSig,
                   emitted, prevStrategy, calls, result, earlier, strategies,
                   runs>>
    /\ UNCHANGED botVars

\* strategy.analyze(historicalCandles) raises: neither backtest() nor
\* compareStrategies() has a try/catch, so the call of compareStrategies()
\* ends here
Raise ==
    /\ pc = "loop"
    /\ i < Len(candles)
    /\ MayRaise(strategy)
    /\ sig' = Raised
    /\ pc' = "thrown"
    /\ UNCHANGED <<strategy, twin, candles, i, backtesterVars, twinSig,
                   emitted, prevStrategy, calls, result, callerVars>>
    /\ UNCHANGED botVars

\* comparisons.push({strategyName, parameters, results})
ComparePush ==
    /\ pc = "done"
    /\ comparisons' =
         Append(comparisons, [strategyName |-> getName(strategy),
                              parameters |-> getParameters(strategy),
                              results |-> result])
    /\ pc' = "compare"
    /\ UNCHANGED <<strategy, twin, candles, i, backtesterVars, sig, twinSig,
                   emitted, prevStrategy, calls, result, earlier, strategies,
                   runs>>
    /\ UNCHANGED botVars

\* comparisons.reduce(f) without an initial value raises a TypeError on an
\* empty array
ReduceRaises(list) == list = <<>>

\* after the loop: the table, printBestPerformers(comparisons), and
\* `return comparisons` when that has not raised
CompareReturn ==
    /\ pc = "compare"
    /\ ~(Len(comparisons) < Len(strategies))
    /\ pc' = IF ReduceRaises(comparisons) THEN "thrown" ELSE "returned"
    /\ UNCHANGED <<strategy, twin, candles, i, backtesterVars, sig, twinSig,
                   emitted, prevStrategy, calls, result, callerVars>>
    /\ UNCHANGED botVars

NextCompare ==
    \/ CompareBegin
    \/ Enter
    \/ Step
    \/ Raise
    \/ Liquidate
    \/ Return
    \/ ComparePush
    \/ CompareReturn

SpecCompare == InitCompare /\ [][NextCompare]_vars

(***************************************************************************)
(* The backtest() calls of one comparison, their steps taken in any order  *)
(***************************************************************************)
\* two contenders, at most one of them an unknown implementation
Pairs ==
    {l \in StrategyLists :
        /\ Len(l) = 2
        /\ \A k \in 1..2 : ~MayRaise(l[k])
        /\ \E k \in 1..2 : l[k].kind # "Stub"}

\* a backtest() call about to start: the strategy handed in and the
\* Backtester constructed for it
NewRun(s, initial) ==
    [strategy |-> s, backtester |-> NewBacktester(initial), pc |-> "idle",
     i |-> 0, emitted |-> <<>>, result |-> Null]

InitInterleave ==
    /\ strategies \in Pairs
    /\ runs = [k \in 1..Len(strategies) |-> NewRun(strategies[k], 10000)]
    /\ comparisons = <<>>
    /\ earlier = Null
    /\ candles \in CompareSeries
    /\ pc = "interleave"
    /\ strategy = strategies[1]
    /\ twin = strategy
    /\ i = 0
    /\ initialBalance = 10000
    /\ currentBalance = NewBacktester(initialBalance).currentBalance
    /\ position = NewBacktester(initialBalance).position
    /\ trades = NewBacktester(initialBalance).trades
    /\ maxBalance = NewBacktester(initialBalance).maxBalance
    /\ tradesId = NewBacktester(initialBalance).tradesId
    /\ sig = NoSignal
    /\ twinSig = NoSignal
    /\ emitted = <<>>
    /\ prevStrategy = strategy
    /\ calls = <<>>
    /\ result = Null
    /\ NoBot

\* faulty variant: one Backtester is constructed before the loop and used
\* by every call
BacktesterOf_shared(k) == Min(k, 1)

\* const backtester = new Backtester(this.initialBalance), inside the loop
\* body: the k-th call has the k-th Backtester
BacktesterOf(k) == k

unchangedByRuns ==
    <<strategy, twin, candles, pc, i, backtesterVars, sig, twinSig, emitted,
      prevStrategy, calls, result, earlier, strategies, comparisons>>

\* this.reset() and the loop initialiser
RunEnter ==
    /\ \E k \in 1..Len(runs) :
         /\ runs[k].pc = "idle"
         /\ runs' = [runs EXCEPT
                       ![BacktesterOf(k)].backtester = reset(@, initialBalance),
                       ![k].i = StartIndex(runs[k].strategy),
                       ![k].pc = "loop"]
    /\ UNCHANGED unchangedByRuns
    /\ UNCHANGED botVars

\* the state of the runs after the k-th took the outcome `out` of analyze()
RunStepped(k, out) ==
    [runs EXCEPT
        ![BacktesterOf(k)].backtester =
            IF Accepted(out.signal) THEN executeSignal(@, out.signal) ELSE @,
        ![k].strategy = out.strategy,
        ![k].emitted = IF out.signal.type = "HOLD" THEN @
                       ELSE Append(@, out.signal),
        ![k].i = @ + 1]

\* one iteration of the for-loop
RunStep ==
    /\ \E k \in 1..Len(runs) :
         /\ runs[k].pc = "loop"
         /\ runs[k].i < Len(candles)
         /\ \E out \in Outcomes(runs[k].strategy,
                                SubSeq(candles, 1, runs[k].i + 1)) :
              runs' = RunStepped(k, out)
    /\ UNCHANGED unchangedByRuns
    /\ UNCHANGED botVars

\* after the loop: close any remaining position at the last candle's close
RunLiquidate ==
    /\ \E k \in 1..Len(runs) :
         /\ runs[k].pc = "loop"
         /\ ~(runs[k].i < Len(candles))
         /\ runs' = [runs EXCEPT
                       ![BacktesterOf(k)].backtester =
                           IF RGt(@.position, R(0))
                           THEN executeSignal(@, Signal("SELL", Last(candles), R(1)))
                           ELSE @,
                       ![k].pc = "closed"]
    /\ UNCHANGED unchangedByRuns
    /\ UNCHANGED botVars

\* return this.calculateResults()
RunReturn ==
    /\ \E k \in 1..Len(runs) :
         /\ runs[k].pc = "closed"
         /\ runs' = [runs EXCEPT
                       ![k].result =
                           calculateResults(runs[BacktesterOf(k)].backtester,
                                            initialBalance),
                       ![k].pc = "done"]
    /\ UNCHANGED unchangedByRuns
    /\ UNCHANGED botVars

NextInterleave == RunEnter \/ RunStep \/ RunLiquidate \/ RunReturn

SpecInterleave == InitInterleave /\ [][NextInterleave]_vars

(***************************************************************************)
(* A trend and its reversal, fed to MovingAverageCrossover(5, 20) one       *)
(* candle at a time: 40 candles each 1% above the one before, then 40      *)
(* candles each 1% below the one before.  Prices are integers (the base    *)
(* is 10000 or more, so a step is rounded by less than 0.01%).             *)
(***************************************************************************)
\* the close of candle k (k = 1..80), from the series so far
TrendClose(base, series) ==
    IF series = <<>> THEN base
    ELSE IF Len(series) < 40 THEN (Last(series).close * 101) \div 100
    ELSE (Last(series).close * 99) \div 100

TrendBases == {10000, 20000, 50000}

InitScenario ==
    /\ strategy = NewMAC(5, 20)
    /\ twin = strategy
    /\ candles = <<>>
    /\ pc = "scenario"
    /\ i \in TrendBases
    /\ initialBalance = 10000
    /\ currentBalance = R(10000)
    /\ position = R(0)
    /\ trades = <<>>
    /\ maxBalance = R(10000)
    /\ tradesId = 0
    /\ sig = NoSignal
    /\ twinSig = NoSignal
    /\ emitted = <<>>
    /\ prevStrategy = strategy
    /\ calls = <<>>
    /\ result = Null
    /\ NoCaller
    /\ NoBot

\* the next candle of the series and the analyze() call on the grown window
ScenarioFeed ==
    /\ pc = "scenario"
    /\ Len(candles) < 80
    /\ LET k == Len(candles) + 1
           window == Append(candles, Candle(k, TrendClose(i, candles), 1000))
       IN  /\ candles' = window
           /\ Call(analyze(strategy, window), window)
    /\ UNCHANGED <<pc, i, backtesterVars, result>>
    /\ UNCHANGED callerVars
    /\ UNCHANGED botVars

NextScenario == ScenarioFeed

SpecScenario == InitScenario /\ [][NextScenario]_vars

(***************************************************************************)
(* TradingBot and LiveTrader: start(), stop(), the trading loop run by the  *)
(* interval timer, and live-trading activation.  Each action is the stretch *)
(* of a call between two awaits; calls in flight are interleaved freely.    *)
(***************************************************************************)
\* start() calls and stop() calls made by the user, each
MaxCalls == 2

\* times an interval timer fires
MaxFires == 2

\* candles requested by loadHistoricalData
LoadSize == 200

\* candles the exchange opens while the bot is observed
MaxOpens == 2

\* getHistoricalKlines(symbol, interval, limit) answered when the exchange's
\* latest candle is `latest`: the open times of its last `limit` candles
Klines(latest, limit) == [k \in 1..limit |-> latest - limit + k]

\* the signals config.strategy.analyze may return: below and above the
\* loop's confidence gate of 0.3
BotSignals ==
    { [type |-> "HOLD", confidence |-> R(0)],
      [type |-> "BUY", confidence |-> <<3, 10>>],
      [type |-> "BUY", confidence |-> <<4, 5>>],
      [type |-> "SELL", confidence |-> <<4, 5>>] }

NewLiveTrader == [isActive |-> FALSE]

NewTradingBot(demoMode) ==
    [demoMode |-> demoMode, isRunning |-> FALSE, intervalId |-> 0,
     candleHistory |-> <<>>]

DropAt(s, k) == SubSeq(s, 1, k - 1) \o SubSeq(s, k + 1, Len(s))

\* a start() call is awaiting its historical data
Starting == \E k \in 1..Len(tasks) : tasks[k].op = "start"

\* one entry of the record of what the bot did
Event(what) ==
    [what |-> what, isActive |-> liveTrader.isActive,
     halted |-> lifecycle.halted, demoMode |-> bot.demoMode,
     activateCalled |-> lifecycle.activateCalled]

InitBot ==
    /\ strategy = NewStub([name |-> "stub"])
    /\ twin = strategy
    /\ candles = <<>>
    /\ pc = "bot"
    /\ i = 0
    /\ initialBalance = 10000
    /\ currentBalance = R(10000)
    /\ position = R(0)
    /\ trades = <<>>
    /\ maxBalance = R(10000)
    /\ tradesId = 0
    /\ sig = NoSignal
    /\ twinSig = NoSignal
    /\ emitted = <<>>
    /\ prevStrategy = strategy
    /\ calls = <<>>
    /\ result = Null
    /\ NoCaller
    /\ bot \in {NewTradingBot(demoMode) : demoMode \in BOOLEAN}
    /\ liveTrader = NewLiveTrader
    /\ timers = {}
    /\ tasks = <<>>
    /\ log = <<>>
    /\ lifecycle = [starts |-> 0, stops |-> 0, fires |-> 0, timersMade |-> 0,
                    halted |-> FALSE, activateCalled |-> FALSE,
                    armed |-> <<>>, windows |-> <<>>]
    /\ market = LoadSize
    /\ cli = Null

backtestVars ==
    <<strategy, twin, candles, pc, i, backtesterVars, sig, twinSig, emitted,
      prevStrategy, calls, result, callerVars>>

\* start(): the guard, and the call of loadHistoricalData it awaits
BotStart ==
    /\ pc = "bot"
    /\ lifecycle.starts < MaxCalls
    /\ lifecycle' = [lifecycle EXCEPT !.starts = @ + 1, !.halted = FALSE]
    /\ tasks' = IF bot.isRunning THEN tasks
                ELSE Append(tasks, [op |-> "start", pc |-> "loading",
                                    asked |-> market])
    /\ UNCHANGED <<bot, liveTrader, timers, log>>
    /\ UNCHANGED <<market, cli, backtestVars>>

\* start() after the load: the error is rethrown, or the bot is marked
\* running and its interval timer is set
BotStartLoaded ==
    /\ \E k \in 1..Len(tasks) :
         /\ tasks[k].op = "start"
         /\ tasks' = DropAt(tasks, k)
         /\ \E loaded \in BOOLEAN, latest \in tasks[k].asked..market :
              IF loaded
              THEN /\ bot' = [bot EXCEPT
                                 !.candleHistory = Klines(latest, LoadSize),
                                 !.isRunning = TRUE,
                                 !.intervalId = lifecycle.timersMade + 1]
                   /\ timers' = timers \cup {lifecycle.timersMade + 1}
                   /\ lifecycle' = [lifecycle EXCEPT
                                       !.timersMade = @ + 1,
                                       !.armed = Append(@, market)]
              ELSE /\ latest = market
                   /\ UNCHANGED <<bot, timers, lifecycle>>
    /\ UNCHANGED <<liveTrader, log>>
    /\ UNCHANGED <<market, cli, backtestVars>>

\* stop(): the guard, isRunning = false, clearInterval; a live bot has no
\* final statistics to fetch and is done, a demo bot awaits the price
BotStop ==
    /\ pc = "bot"
    /\ lifecycle.stops < MaxCalls
    /\ IF ~bot.isRunning
       THEN /\ lifecycle' = [lifecycle EXCEPT !.stops = @ + 1]
            /\ UNCHANGED <<bot, timers, tasks>>
       ELSE /\ bot' = [bot EXCEPT !.isRunning = FALSE, !.intervalId = 0]
            /\ timers' = timers \ {bot.intervalId}
            /\ IF bot.demoMode
               THEN /\ tasks' = Append(tasks, [op |-> "stop", pc |-> "stats",
                                                   asked |-> market])
                    /\ lifecycle' = [lifecycle EXCEPT !.stops = @ + 1]
               ELSE /\ tasks' = tasks
                    /\ lifecycle' = [lifecycle EXCEPT !.stops = @ + 1,
                                                      !.halted = ~Starting]
    /\ UNCHANGED <<liveTrader, log>>
    /\ UNCHANGED <<market, cli, backtestVars>>

\* stop() of a demo bot after printFinalStats: the call has completed; the
\* bot counts as halted unless a start() was called meanwhile
BotStopDone ==
    /\ \E k \in 1..Len(tasks) :
         /\ tasks[k].op = "stop"
         /\ tasks' = DropAt(tasks, k)
         /\ lifecycle' = [lifecycle EXCEPT
                             !.halted = ~Starting /\ ~bot.isRunning]
    /\ UNCHANGED <<bot, liveTrader, timers, log>>
    /\ UNCHANGED <<market, cli, backtestVars>>

\* an interval timer fires: tradingLoop() requests the latest candle
TimerFire ==
    /\ lifecycle.fires < MaxFires
    /\ \E id \in timers :
         /\ market > lifecycle.armed[id]
         /\ lifecycle' = [lifecycle EXCEPT !.fires = @ + 1,
                                           !.armed[id] = market]
    /\ tasks' = Append(tasks, [op |-> "tick", pc |-> "klines",
                               asked |-> market])
    /\ UNCHANGED <<bot, liveTrader, timers, log>>
    /\ UNCHANGED <<market, cli, backtestVars>>

\* config.demoMode ? demoTrader : liveTrader
Trader(demoMode) == IF demoMode THEN "demo" ELSE "live"

\* LiveTrader.executeTrade up to its first await: where the call waits, or
\* "done" when it has returned, and the order it has sent, if any
LiveTrader_executeTrade(lt, signal) ==
    IF ~lt.isActive THEN [pc |-> "done", order |-> "none"]
    ELSE IF signal.type = "BUY"
    THEN [pc |-> "awaitBuy", order |-> "marketBuy"]
    ELSE IF signal.type = "SELL"
    THEN [pc |-> "awaitBalance", order |-> "none"]
    ELSE [pc |-> "done", order |-> "none"]

\* what tradingLoop() does with a candle: push, analyze, and hand a signal
\* that passes the gate to the demo or the live trader
TradingLoop_candle(k, signal, latestCandle) ==
    LET analyzed == Append(log, Event("analyze"))
        passes == signal.type # "HOLD" /\ RGt(signal.confidence, <<3, 10>>)
        live == LiveTrader_executeTrade(liveTrader, signal)
    IN  /\ bot' = [bot EXCEPT !.candleHistory = Append(@, latestCandle)]
        /\ lifecycle' = [lifecycle EXCEPT
                            !.windows = Append(@, bot'.candleHistory)]
        /\ IF ~passes
           THEN log' = analyzed /\ tasks' = DropAt(tasks, k)
           ELSE IF Trader(bot.demoMode) = "demo"
           THEN /\ log' = Append(analyzed, Event("demoTrade"))
                /\ tasks' = DropAt(tasks, k)
           ELSE /\ log' = IF live.order = "none" THEN analyzed
                          ELSE Append(analyzed, Event(live.order))
                /\ tasks' = IF live.pc = "done" THEN DropAt(tasks, k)
                            ELSE [tasks EXCEPT ![k].pc = live.pc]

\* tradingLoop() after getHistoricalKlines: the request failed or came back
\* empty, or it brought the latest candle
TradingLoopData ==
    /\ \E k \in 1..Len(tasks) :
         /\ tasks[k].op = "tick"
         /\ tasks[k].pc = "klines"
         /\ \/ tasks' = DropAt(tasks, k) /\ UNCHANGED <<bot, log, lifecycle>>
            \/ \E signal \in BotSignals, latest \in tasks[k].asked..market :
                 TradingLoop_candle(k, signal, latest)
    /\ UNCHANGED <<liveTrader, timers>>
    /\ UNCHANGED <<market, cli, backtestVars>>

\* LiveTrader.executeTrade of a SELL after getAccountBalance: the request
\* failed or shows nothing to sell, or marketSell is called with the balance
LiveBalance ==
    /\ \E k \in 1..Len(tasks) :
         /\ tasks[k].pc = "awaitBalance"
         /\ \E free \in {0, 1} :
              IF free > 0
              THEN /\ log' = Append(log, Event("marketSell"))
                   /\ tasks' = [tasks EXCEPT ![k].pc = "awaitSell"]
              ELSE /\ log' = log
                   /\ tasks' = DropAt(tasks, k)
    /\ UNCHANGED <<bot, liveTrader, timers, lifecycle>>
    /\ UNCHANGED <<market, cli, backtestVars>>

\* the exchange answers a market order: executeTrade and tradingLoop return
LiveOrderResult ==
    /\ \E k \in 1..Len(tasks) :
         /\ tasks[k].pc \in {"awaitBuy", "awaitSell"}
         /\ tasks' = DropAt(tasks, k)
    /\ UNCHANGED <<bot, liveTrader, timers, log, lifecycle>>
    /\ UNCHANGED <<market, cli, backtestVars>>

\* faulty variant: the demo-mode guard is missing
ActivateLiveTrading_unguarded ==
    /\ pc = "bot"
    /\ liveTrader' = [liveTrader EXCEPT !.isActive = TRUE]
    /\ lifecycle' = [lifecycle EXCEPT !.activateCalled = TRUE]
    /\ UNCHANGED <<bot, timers, tasks, log>>
    /\ UNCHANGED <<market, cli, backtestVars>>

\* activateLiveTrading(): liveTrader.activate() unless in demo mode
ActivateLiveTrading ==
    /\ pc = "bot"
    /\ liveTrader' = IF ~bot.demoMode
                     THEN [liveTrader EXCEPT !.isActive = TRUE]
                     ELSE liveTrader
    /\ lifecycle' = [lifecycle EXCEPT !.activateCalled = TRUE]
    /\ UNCHANGED <<bot, timers, tasks, log>>
    /\ UNCHANGED <<market, cli, backtestVars>>

\* deactivateLiveTrading(): liveTrader.deactivate()
DeactivateLiveTrading ==
    /\ pc = "bot"
    /\ liveTrader.isActive
    /\ liveTrader' = [liveTrader EXCEPT !.isActive = FALSE]
    /\ UNCHANGED <<bot, timers, tasks, log, lifecycle>>
    /\ UNCHANGED <<market, cli, backtestVars>>

\* the exchange opens the next candle: one interval has passed
MarketOpens ==
    /\ pc = "bot"
    /\ market < LoadSize + MaxOpens
    /\ market' = market + 1
    /\ UNCHANGED <<bot, liveTrader, timers, tasks, log, lifecycle, cli>>
    /\ UNCHANGED backtestVars

NextBot ==
    \/ MarketOpens
    \/ BotStart
    \/ BotStartLoaded
    \/ BotStop
    \/ BotStopDone
    \/ TimerFire
    \/ TradingLoopData
    \/ LiveBalance
    \/ LiveOrderResult
    \/ ActivateLiveTrading
    \/ DeactivateLiveTrading

SpecBot == InitBot /\ [][NextBot]_vars

(***************************************************************************)
(* InteractiveCLI: the main menu and the bots it starts and stops.  The     *)
(* menu reads one choice at a time and awaits its handler, so the handlers  *)
(* do not overlap; a bot's timer runs on between them.                      *)
(***************************************************************************)
\* bots constructed through the menu
MaxBots == 3

\* the bots that are running: isRunning, with the interval timer set
CliRunning == {k \in 1..Len(cli.bots) : cli.bots[k].isRunning}

\* constructor: a client built from the environment; no current bot
InitCLI ==
    /\ strategy = NewStub([name |-> "stub"])
    /\ twin = strategy
    /\ candles = <<>>
    /\ pc = "menu"
    /\ i = 0
    /\ initialBalance = 10000
    /\ currentBalance = R(10000)
    /\ position = R(0)
    /\ trades = <<>>
    /\ maxBalance = R(10000)
    /\ tradesId = 0
    /\ sig = NoSignal
    /\ twinSig = NoSignal
    /\ emitted = <<>>
    /\ prevStrategy = strategy
    /\ calls = <<>>
    /\ result = Null
    /\ NoCaller
    /\ bot = Null
    /\ liveTrader = Null
    /\ timers = {}
    /\ tasks = <<>>
    /\ log = <<>>
    /\ lifecycle = Null
    /\ market = 0
    /\ cli = [binanceClient |-> TRUE, currentBot |-> 0, bots |-> <<>>,
              isActive |-> <<>>]

singleBotVars == <<bot, liveTrader, timers, tasks, log, lifecycle, market>>

\* 1: configureBinance(): a new client, set to null when the test request
\* fails
ConfigureBinance ==
    /\ pc = "menu"
    /\ \E connected \in BOOLEAN :
         cli' = [cli EXCEPT !.binanceClient = connected]
    /\ UNCHANGED pc
    /\ UNCHANGED singleBotVars
    /\ UNCHANGED <<strategy, twin, candles, i, backtesterVars, sig, twinSig,
                   emitted, prevStrategy, calls, result, callerVars>>

\* this.currentBot = new TradingBot(config, this.binanceClient)
CliNewBot(demoMode) ==
    [cli EXCEPT !.bots = Append(@, NewTradingBot(demoMode)),
                !.isActive = Append(@, FALSE),
                !.currentBot = Len(cli.bots) + 1]

\* 3 and 4: startDemoTrading() and startLiveTrading() up to the call of
\* start(): the guard on the client, the confirmation asked for live
\* trading, the new TradingBot
StartTrading ==
    /\ pc = "menu"
    /\ \E demoMode \in BOOLEAN, confirmed \in BOOLEAN :
         IF ~cli.binanceClient \/ (~demoMode /\ ~confirmed)
         THEN UNCHANGED <<cli, pc>>
         ELSE /\ Len(cli.bots) < MaxBots
              /\ cli' = CliNewBot(demoMode)
              /\ pc' = "starting"
    /\ UNCHANGED singleBotVars
    /\ UNCHANGED <<strategy, twin, candles, i, backtesterVars, sig, twinSig,
                   emitted, prevStrategy, calls, result, callerVars>>

\* await this.currentBot.start() returns or throws; a live bot is activated
\* if the user says so; back to the menu.  The menu has no try/catch: a
\* failed load ends the CLI
Started ==
    /\ pc = "starting"
    /\ \E loaded \in BOOLEAN, activateNow \in BOOLEAN :
         LET b == cli.currentBot
         IN  IF loaded
             THEN /\ cli' = [cli EXCEPT
                               !.bots[b].isRunning = TRUE,
                               !.bots[b].intervalId = b,
                               !.bots[b].candleHistory =
                                   Klines(LoadSize, LoadSize),
                               !.isActive[b] =
                                   activateNow /\ ~cli.bots[b].demoMode]
                  /\ pc' = "menu"
             ELSE /\ pc' = "thrown"
                  /\ UNCHANGED cli
    /\ UNCHANGED singleBotVars
    /\ UNCHANGED <<strategy, twin, candles, i, backtesterVars, sig, twinSig,
                   emitted, prevStrategy, calls, result, callerVars>>

\* 6: stopBot(): stop() of the current bot, if any, and currentBot = null
StopBot ==
    /\ pc = "menu"
    /\ cli' = IF cli.currentBot = 0 THEN cli
              ELSE [cli EXCEPT
                      !.bots[cli.currentBot].isRunning = FALSE,
                      !.bots[cli.currentBot].intervalId = 0,
                      !.currentBot = 0]
    /\ UNCHANGED pc
    /\ UNCHANGED singleBotVars
    /\ UNCHANGED <<strategy, twin, candles, i, backtesterVars, sig, twinSig,
                   emitted, prevStrategy, calls, result, callerVars>>

NextCLI == ConfigureBinance \/ StartTrading \/ Started \/ StopBot

SpecCLI == InitCLI /\ [][NextCLI]_vars

(***************************************************************************)
(* Properties                                                              *)
(***************************************************************************)
\* the classes that carry a lastSignal latch
Latched == {"MAC", "RSI", "BB", "MACD", "Combo"}

\* no non-HOLD signal has the type of the non-HOLD signal before it
NoRepeat ==
    \A k \in 1..(Len(emitted) - 1) : emitted[k].type # emitted[k + 1].type

\* a HOLD leaves the latch as it was
HoldKeepsLatch ==
    (strategy.kind \in Latched /\ sig.type = "HOLD")
        => strategy.lastSignal = prevStrategy.lastSignal

\* C1 as stated: for all six strategies, over analyze() calls on a window
\* growing one candle at a time, two non-HOLD signals of the same type are
\* never emitted without a signal of the opposite type in between, and a HOLD
\* never changes the latch.
C1_LatchAllSix == NoRepeat /\ HoldKeepsLatch

\* C1 as amended: the same for the five strategies with a lastSignal latch
\* (Crossover, RSI, Bollinger, MACD, Combo); ScalpingStrategy is excluded.
C1_LatchFive == strategy.kind \in Latched => (NoRepeat /\ HoldKeepsLatch)

\* the latch at work: Bollinger has bought, the close is still at or below
\* the lower band, and the call answers HOLD
C1_Witness ==
    /\ strategy.kind = "BB"
    /\ Len(candles) > strategy.period
    /\ prevStrategy.lastSignal = "BUY"
    /\ BB_atOrBelowLower(strategy, Last(candles).close,
                         BB_calculateBollingerBands(strategy, candles))
    /\ sig.type = "HOLD"
    /\ strategy.lastSignal = "BUY"

\* the minimum lookback of each class, as the warm-up rule lists them
C2_lookback(s) ==
    IF s.kind = "MAC" THEN s.longPeriod
    ELSE IF s.kind = "RSI" THEN s.period + 1
    ELSE IF s.kind = "BB" THEN s.period
    ELSE IF s.kind = "MACD" THEN s.slowPeriod + s.signalPeriod + 5
    ELSE IF s.kind = "Combo" THEN Max(s.rsiPeriod, s.maLongPeriod) + 5
    ELSE s.volatilityPeriod + 5

\* C2: analyze() on a non-empty window shorter than the class's minimum
\* lookback returns HOLD with confidence 0 and the last candle's close and
\* timestamp, and leaves the instance (latch, Scalping position map)
\* unchanged.
C2_WarmUp ==
    (Len(candles) >= 1 /\ Len(candles) < C2_lookback(strategy))
        => /\ sig = [type |-> "HOLD", price |-> Last(candles).close,
                     timestamp |-> Last(candles).timestamp,
                     confidence |-> R(0)]
           /\ strategy = prevStrategy

\* MACD one candle short of its lookback, on a window that has moved
C2_Witness ==
    /\ strategy.kind = "MACD"
    /\ Len(candles) = C2_lookback(strategy) - 1
    /\ \E k \in 1..Len(candles) : candles[k].close # Last(candles).close
    /\ sig.type = "HOLD"

\* net cash flow of a ledger: SELL proceeds minus BUY costs
RECURSIVE LedgerFlow(_)
LedgerFlow(ts) ==
    IF ts = <<>> THEN R(0)
    ELSE LET tr == Last(ts)
             value == RMul(tr.quantity, R(tr.price))
         IN  RAdd(LedgerFlow(ButLast(ts)),
                  IF tr.type = "SELL" THEN value ELSE RSub(R(0), value))

\* C3: when backtest() returns, the final balance is the initial balance plus
\* the SELL proceeds minus the BUY costs of the recorded trades, and each
\* BUY's cost is exactly 95% of the cash held just before it.
C3_Conservation ==
    pc = "done" =>
        /\ currentBalance =
               RAdd(R(initialBalance), LedgerFlow(result.trades))
        /\ \A k \in 1..Len(result.trades) :
              result.trades[k].type = "BUY" =>
                 RMul(result.trades[k].quantity, R(result.trades[k].price))
                   = RMul(<<95, 100>>,
                          RAdd(R(initialBalance),
                               LedgerFlow(SubSeq(result.trades, 1, k - 1))))

\* a returned backtest with two round trips that changed the balance
C3_Witness ==
    /\ pc = "done"
    /\ Len(result.trades) >= 4
    /\ currentBalance # R(initialBalance)

CountType(ts, type) == Len(SelectSeq(ts, LAMBDA tr : tr.type = type))

\* C4: in every reachable state the ledger alternates BUY, SELL, BUY, ...
\* starting with BUY, and position > 0 exactly when its last entry is a BUY;
\* when backtest() returns the position is 0, there are as many SELL as BUY
\* trades, and winningTrades + losingTrades = totalTrades.
C4_LedgerShape ==
    /\ \A k \in 1..Len(trades) :
          trades[k].type = IF k % 2 = 1 THEN "BUY" ELSE "SELL"
    /\ RGt(position, R(0)) <=> (trades # <<>> /\ Last(trades).type = "BUY")
    /\ pc = "done" =>
          /\ position = R(0)
          /\ CountType(result.trades, "SELL") = CountType(result.trades, "BUY")
          /\ result.winningTrades + result.losingTrades = result.totalTrades

\* a returned backtest whose last SELL is the forced liquidation: the last
\* signal of the loop was not an executed SELL
C4_Witness ==
    /\ pc = "done"
    /\ Len(trades) >= 2
    /\ Last(trades).timestamp = Last(candles).timestamp
    /\ Last(trades).price = Last(candles).close
    /\ ~(sig.type = "SELL" /\ Accepted(sig))

\* this step appended one trade of the given type to the ledger
Executed(type) ==
    /\ Len(trades') = Len(trades) + 1
    /\ SubSeq(trades', 1, Len(trades)) = trades
    /\ Last(trades').type = type

\* C5: a BUY is executed only if cash > 100 and position = 0; a SELL only if
\* position > 0, and then it liquidates the whole position and sets the
\* high-water mark to max(high-water mark, new balance); a BUY while holding,
\* a BUY with cash <= 100 and a SELL while flat change nothing.
C5_Acceptance ==
    [][pc = "loop" =>
        /\ trades' # trades => Executed("BUY") \/ Executed("SELL")
        /\ Executed("BUY") =>
              RGt(currentBalance, R(100)) /\ position = R(0)
        /\ Executed("SELL") =>
              /\ RGt(position, R(0))
              /\ position' = R(0)
              /\ Last(trades').quantity = position
              /\ maxBalance' = RMax(maxBalance, currentBalance')
        /\ (/\ i' = i + 1
            /\ \/ sig'.type = "BUY" /\ position # R(0)
               \/ sig'.type = "BUY" /\ RLe(currentBalance, R(100))
               \/ sig'.type = "SELL" /\ ~RGt(position, R(0)))
              => UNCHANGED backtesterVars
       ]_vars

\* a BUY that passed the gate while a position was open, and changed nothing
C5_Witness ==
    /\ pc = "loop"
    /\ sig.type = "BUY"
    /\ Accepted(sig)
    /\ Len(trades) = 1
    /\ trades[1].timestamp < sig.timestamp
    /\ RGt(position, R(0))

\* C6: during the loop a strategy signal changes the Backtester's state only
\* if its type is not HOLD and its confidence is strictly above 0.1.
C6_ConfidenceGate ==
    [][(pc = "loop" /\ i' = i + 1 /\ backtesterVars' # backtesterVars)
          => (sig'.type # "HOLD" /\ RGt(sig'.confidence, <<1, 10>>))]_vars

\* a BUY with confidence exactly 0.1, offered to a flat Backtester holding
\* more than 100 in cash, and not executed
C6_Witness ==
    /\ pc = "loop"
    /\ sig.type = "BUY"
    /\ sig.confidence = <<1, 10>>
    /\ Len(calls) = 1
    /\ RGt(currentBalance, R(100))
    /\ position = R(0)
    /\ trades = <<>>

\* the start index as C7 states it
C7_claimedStart(s) ==
    IF "longPeriod" \in DOMAIN getParameters(s)
    THEN getParameters(s).longPeriod
    ELSE 20

\* the start index as amended: a longPeriod of 0 counts as not exposed
C7_start(s) ==
    IF "longPeriod" \in DOMAIN getParameters(s)
       /\ getParameters(s).longPeriod # 0
    THEN getParameters(s).longPeriod
    ELSE 20

\* the analyze() calls made so far are those for the indices start .. i-1,
\* in increasing order, each on a window of index+1 candles; the latest
\* signal carries the last candle of its window; after the loop no index
\* below candles.length is left out
FeedingOrderFrom(start) ==
    pc \in {"loop", "closed", "done"} =>
        /\ Len(calls) = i - start
        /\ \A k \in 1..Len(calls) : calls[k] = start + k
        /\ calls # <<>> =>
              /\ sig.timestamp = candles[Last(calls)].timestamp
              /\ sig.price = candles[Last(calls)].close
        /\ pc \in {"closed", "done"} => i = Max(start, Len(candles))

\* C7 as stated: backtest() calls analyze() exactly once per index from start
\* to candles.length-1, in increasing order, on the prefix of length index+1,
\* where start is the strategy's longPeriod parameter when it exposes one and
\* 20 otherwise.
C7_FeedingOrderAsStated == FeedingOrderFrom(C7_claimedStart(strategy))

\* C7 as amended: the same, where start is the longPeriod parameter when the
\* strategy exposes a non-zero one and 20 otherwise (also when it is 0).
C7_FeedingOrder == FeedingOrderFrom(C7_start(strategy))

\* a returned backtest of a strategy exposing longPeriod that made three
\* calls, the first on longPeriod+1 candles
C7_Witness ==
    /\ pc = "done"
    /\ "longPeriod" \in DOMAIN getParameters(strategy)
    /\ getParameters(strategy).longPeriod # 0
    /\ Len(calls) >= 3
    /\ calls[1] = getParameters(strategy).longPeriod + 1

\* C8: an executed BUY at price p from cash B leaves position 0.95*B/p and
\* cash 0.05*B; an executed SELL at price q adds position*q to the cash;
\* totalReturn = (final - initial)/initial*100.  With initial balance 10000,
\* a BUY at 100 and a SELL at 110: position 95, final balance 10950,
\* totalReturn 9.5%.
C8_TradeAccounting ==
    /\ [][pc = "loop" =>
            /\ Executed("BUY") =>
                  /\ position' = RDiv(RMul(<<95, 100>>, currentBalance),
                                      R(Last(trades').price))
                  /\ currentBalance' = RMul(<<5, 100>>, currentBalance)
                  /\ Last(trades').quantity = position'
            /\ Executed("SELL") =>
                  currentBalance' =
                      RAdd(currentBalance,
                           RMul(position, R(Last(trades').price)))
         ]_vars
    /\ [](pc = "done" =>
            /\ result.totalReturn =
                   RMul(RDiv(RSub(currentBalance, R(initialBalance)),
                             R(initialBalance)), R(100))
            /\ (/\ initialBalance = 10000
                /\ Len(trades) = 2
                /\ trades[1].price = 100
                /\ trades[2].price = 110)
                  => /\ trades[1].quantity = R(95)
                     /\ trades[2].quantity = R(95)
                     /\ currentBalance = R(10950)
                     /\ result.totalReturn = <<19, 2>>)

\* the returned backtest of the example: 10000, BUY at 100, SELL at 110
C8_Witness ==
    /\ pc = "done"
    /\ initialBalance = 10000
    /\ Len(trades) = 2
    /\ trades[1].price = 100
    /\ trades[2].price = 110
    /\ result.totalTrades = 1

\* every non-HOLD signal so far has a confidence in [0.5, 0.9]
ConfidenceInRange ==
    \A k \in 1..Len(emitted) :
        RGe(emitted[k].confidence, <<1, 2>>)
        /\ RLe(emitted[k].confidence, <<9, 10>>)

\* C9 as stated: over the 80 candles (40 rising 1% each, then 40 falling 1%
\* each) Crossover(5,20) emits exactly one BUY and exactly one SELL, each
\* with confidence in [0.5, 0.9], and HOLD on every other call.
C9_OneBuyOneSell ==
    Len(candles) = 80 =>
        /\ CountType(emitted, "BUY") = 1
        /\ CountType(emitted, "SELL") = 1
        /\ ConfidenceInRange

\* C9 as amended: it never emits a BUY, and emits exactly one SELL, on the
\* 48th candle (the 8th of the decline), with confidence in [0.5, 0.9]; every
\* other call answers HOLD.
C9_NoBuyOneSell ==
    /\ CountType(emitted, "BUY") = 0
    /\ ConfidenceInRange
    /\ Len(emitted) = IF Len(candles) < 48 THEN 0 ELSE 1
    /\ Len(candles) >= 48 =>
          /\ emitted[1].type = "SELL"
          /\ emitted[1].timestamp = candles[48].timestamp
          /\ emitted[1].price = candles[48].close

\* the whole series has been fed and the SELL was given
C9_Witness ==
    /\ pc = "scenario"
    /\ Len(candles) = 80
    /\ candles[40].close > candles[1].close
    /\ candles[80].close < candles[40].close
    /\ Len(emitted) = 1
    /\ sig.type = "HOLD"

BalanceAfter(k) == RAdd(R(initialBalance), LedgerFlow(SubSeq(trades, 1, k)))

\* the pairs (k-th BUY, k-th SELL) of the ledger whose SELL price is above
\* the BUY price
WinningPairs ==
    {k \in 1..CountType(trades, "SELL") :
        SelectSeq(trades, LAMBDA tr : tr.type = "SELL")[k].price
          > SelectSeq(trades, LAMBDA tr : tr.type = "BUY")[k].price}

\* C15: totalTrades is the number of recorded BUY trades; the i-th BUY is
\* paired with the i-th SELL; a pair is a win iff its SELL price is strictly
\* above its BUY price and a loss otherwise (equal prices: a loss); winRate
\* is the share of winning pairs among the BUY trades in percent, and 0 when
\* there is no BUY.
C15_WinAccounting ==
    pc = "done" =>
        /\ result.totalTrades = CountType(trades, "BUY")
        /\ result.winningTrades = Cardinality(WinningPairs)
        /\ result.losingTrades =
               CountType(trades, "SELL") - Cardinality(WinningPairs)
        /\ result.winRate =
               IF CountType(trades, "BUY") = 0 THEN R(0)
               ELSE RNorm(<<100 * Cardinality(WinningPairs),
                            CountType(trades, "BUY")>>)

\* a returned backtest with a pair sold at its buy price and a pair sold
\* above it
C15_Witness ==
    /\ pc = "done"
    /\ Len(trades) = 4
    /\ trades[2].price > trades[1].price
    /\ trades[4].price = trades[3].price
    /\ result.winningTrades = 1
    /\ result.losingTrades = 1

\* the highest of the initial balance and the cash balances right after the
\* SELL entries of the ledger
PeakAtSells ==
    LET at == {R(initialBalance)} \cup
              {BalanceAfter(k) : k \in {j \in 1..Len(trades) :
                                          trades[j].type = "SELL"}}
    IN  CHOOSE x \in at : \A y \in at : RGe(x, y)

\* C16: maxDrawdown = (peak - final)/peak*100, the peak being the maximum of
\* the initial balance and the cash balance right after each executed SELL
\* (the forced liquidation included); it is never negative, and 0 exactly
\* when the final balance is the peak.
C16_DrawdownFromPeak ==
    pc = "done" =>
        /\ result.maxDrawdown =
               RMul(RDiv(RSub(PeakAtSells, currentBalance), PeakAtSells),
                    R(100))
        /\ RGe(result.maxDrawdown, R(0))
        /\ result.maxDrawdown = R(0) <=> currentBalance = PeakAtSells

\* a returned backtest that won first and lost afterwards: the peak is
\* neither the initial nor the final balance
C16_Witness ==
    /\ pc = "done"
    /\ Len(trades) = 4
    /\ RGt(PeakAtSells, R(initialBalance))
    /\ RGt(PeakAtSells, currentBalance)
    /\ RGt(result.maxDrawdown, R(0))

\* the account value at the points where no position is held: the initial
\* balance, then the cash balance right after each SELL
FlatValues ==
    LET sells == SelectSeq([k \in 1..Len(trades) |-> k],
                           LAMBDA k : trades[k].type = "SELL")
    IN  <<R(initialBalance)>> \o [n \in 1..Len(sells) |-> BalanceAfter(sells[n])]

\* the percentage drop from the value at point p to the value at point q
Decline(values, p, q) ==
    RMul(RDiv(RSub(values[p], values[q]), values[p]), R(100))

\* the largest drop from a running peak to a later point
LargestDecline(values) ==
    LET later == UNION {{Decline(values, p, q) : q \in p..Len(values)} :
                          p \in 1..Len(values)}
    IN  CHOOSE x \in later : \A y \in later : RGe(x, y)

\* C17: maxDrawdown is the largest peak-to-trough decline of the simulated
\* balance over the run: the maximum, over all points of the run, of the
\* percentage drop from the running peak.
C17_PeakToTrough ==
    pc = "done" => result.maxDrawdown = LargestDecline(FlatValues)

\* a returned backtest that lost on its first pair and won it back on the
\* second: a decline happened, and the reported drawdown is 0
C17_LossRecovered ==
    /\ pc = "done"
    /\ Len(trades) = 4
    /\ RLt(BalanceAfter(2), R(initialBalance))
    /\ RGe(currentBalance, R(initialBalance))
    /\ result.maxDrawdown = R(0)
    /\ RGt(LargestDecline(FlatValues), R(0))

\* the last analyze() call was made on a warmed-up ScalpingStrategy
ScalpingCalled ==
    /\ strategy.kind = "Scalping"
    /\ calls # <<>>
    /\ Len(candles) >= strategy.volatilityPeriod + 5

\* profit in percent of a position opened at entry, at the given close
ProfitAt(type, entry, close) ==
    IF type = "LONG" THEN RNorm(<<100 * (close - entry), entry>>)
    ELSE RNorm(<<100 * (entry - close), entry>>)

\* the exit the priority list of C18 selects for a position held for `held`
\* candles: <<reason, confidence>>
ExitByPriority(s, type, held, profit, momentum) ==
    LET half == RMul(s.quickProfitTarget, <<1, 2>>)
        against == \/ type = "LONG" /\ momentum = "DOWN"
                   \/ type = "SHORT" /\ momentum = "UP"
    IN  CASE RGe(profit, half) -> <<"quick_profit", <<9, 10>>>>
          [] RLt(profit, half) /\ held >= s.maxHoldTime /\ RLe(profit, R(0))
                -> <<"max_hold_losing", <<7, 10>>>>
          [] RLt(profit, half) /\ ~(held >= s.maxHoldTime /\ RLe(profit, R(0)))
             /\ held >= 2 /\ against
                -> <<"momentum_reversal", <<8, 10>>>>
          [] RLt(profit, half) /\ ~(held >= s.maxHoldTime /\ RLe(profit, R(0)))
             /\ ~(held >= 2 /\ against)
             /\ RLe(profit, RSub(R(0), RMul(R(2), s.quickProfitTarget)))
                -> <<"stop_loss", <<8, 10>>>>
          [] OTHER -> <<"none", R(0)>>

\* what C18 requires of a call made with the position `pos` open
ExitAsListed(pos, exit) ==
    IF exit[1] = "none"
    THEN /\ sig.type = "HOLD"
         /\ strategy.positions = <<[pos EXCEPT !.candles = @ + 1]>>
    ELSE /\ sig.type = (IF pos.type = "LONG" THEN "SELL" ELSE "BUY")
         /\ RNorm(sig.confidence) = RNorm(exit[2])
         /\ sig.price = Last(candles).close
         /\ Scalping_analyzeWhy(prevStrategy, candles).reason = exit[1]
         /\ strategy.positions = <<>>

\* C18: with a position open, analyze() first increments its candlesHeld,
\* then tests the exits in the order quick profit (profit >= 50% of the
\* target, 0.9), max hold while losing (held >= maxHoldTime and profit <= 0,
\* 0.7), momentum reversal (held >= 2, momentum against the position, profit
\* below 50% of the target, 0.8), stop loss (profit <= -2 x target, 0.8); the
\* first match is returned, as SELL for a LONG and BUY for a SHORT, and no
\* entry is made in the same call.
C18_ExitPriority ==
    (ScalpingCalled /\ prevStrategy.positions # <<>>) =>
        ExitAsListed(prevStrategy.positions[1],
            ExitByPriority(strategy, prevStrategy.positions[1].type,
                prevStrategy.positions[1].candles + 1,
                ProfitAt(prevStrategy.positions[1].type,
                         prevStrategy.positions[1].entry,
                         Last(candles).close),
                Scalping_calculateMomentum(candles).direction))

\* a position held up to the limit and fallen below the stop: two exits
\* match and the earlier one in the list, the hold limit, answers with 0.7
C18_Witness ==
    /\ ScalpingCalled
    /\ prevStrategy.positions # <<>>
    /\ prevStrategy.positions[1].candles + 1 >= strategy.maxHoldTime
    /\ RLe(ProfitAt(prevStrategy.positions[1].type,
                    prevStrategy.positions[1].entry, Last(candles).close),
           RSub(R(0), RMul(R(2), strategy.quickProfitTarget)))
    /\ sig.type # "HOLD"
    /\ sig.confidence = <<7, 10>>
    /\ strategy.positions = <<>>

\* C19: an entry is attempted only when no exit fired and no position is
\* open; the position map holds at most one position; an exit and an entry
\* never happen in the same call.
C19_SinglePosition ==
    strategy.kind = "Scalping" =>
        /\ Len(strategy.positions) <= 1
        /\ (ScalpingCalled /\ strategy.positions # <<>>
              /\ strategy.positions[1].candles = 0)
               => prevStrategy.positions = <<>>
        /\ (ScalpingCalled /\ prevStrategy.positions # <<>>
              /\ sig.type # "HOLD")
               => strategy.positions = <<>>

\* entry conditions are met while a position is open and no exit matches:
\* the call answers HOLD and the one position stays
C19_Witness ==
    /\ ScalpingCalled
    /\ Len(prevStrategy.positions) = 1
    /\ Len(strategy.positions) = 1
    /\ sig.type = "HOLD"
    /\ Scalping_checkEntryConditions(
           [prevStrategy EXCEPT !.positions = <<>>], candles).signal.type
         # "HOLD"

\* the open positions of an instance, without their hold counters
OpenPositions(s) ==
    {[type |-> s.positions[k].type, entry |-> s.positions[k].entry,
      timestamp |-> s.positions[k].timestamp] : k \in 1..Len(s.positions)}

\* t consists of entries of s, in their order, that form the end of s
IsSuffix(t, s) ==
    Len(t) <= Len(s) /\ t = SubSeq(s, Len(s) - Len(t) + 1, Len(s))

\* the one position an entry signal opens
EntryOpens ==
    /\ Len(strategy.positions) = 1
    /\ strategy.positions[1] =
         [type |-> IF sig.type = "BUY" THEN "LONG" ELSE "SHORT",
          entry |-> Last(candles).close,
          timestamp |-> Last(candles).timestamp,
          candles |-> 0]
    /\ IsSuffix(strategy.recentTrades, prevStrategy.recentTrades)

\* the one position an exit signal removes and the one ledger entry it adds
ExitRemoves ==
    /\ Len(prevStrategy.positions) = 1
    /\ strategy.positions = <<>>
    /\ strategy.recentTrades # <<>>
    /\ Last(strategy.recentTrades) =
         [timestamp |-> Last(candles).timestamp,
          profit |-> ProfitAt(prevStrategy.positions[1].type,
                              prevStrategy.positions[1].entry,
                              Last(candles).close)]
    /\ IsSuffix(ButLast(strategy.recentTrades), prevStrategy.recentTrades)

\* C20: analyze() changes the set of open positions iff it returns a
\* non-HOLD signal; an entry BUY opens exactly a LONG at the current close
\* with candlesHeld 0, an entry SELL a SHORT; an exit removes exactly its
\* position and appends exactly one entry to the trade ledger; a HOLD leaves
\* the set of open positions unchanged.
C20_Atomicity ==
    (strategy.kind = "Scalping" /\ calls # <<>>) =>
        /\ (OpenPositions(strategy) # OpenPositions(prevStrategy))
              <=> sig.type # "HOLD"
        /\ (sig.type # "HOLD" /\ prevStrategy.positions = <<>>) => EntryOpens
        /\ (sig.type # "HOLD" /\ prevStrategy.positions # <<>>) => ExitRemoves
        /\ sig.type = "HOLD" =>
              IsSuffix(strategy.recentTrades, prevStrategy.recentTrades)

\* the exit of a SHORT: a BUY is returned, the position goes and the ledger
\* gets its entry
C20_Witness ==
    /\ ScalpingCalled
    /\ sig.type # "HOLD"
    /\ prevStrategy.positions # <<>>
    /\ prevStrategy.positions[1].type = "SHORT"
    /\ strategy.positions = <<>>
    /\ Len(strategy.recentTrades) >= 1

\* a Backtester taking the given signals one after the other
RECURSIVE Replay(_, _)
Replay(b, signals) ==
    IF signals = <<>> THEN b
    ELSE Replay(IF Accepted(Head(signals))
                THEN executeSignal(b, Head(signals)) ELSE b,
                Tail(signals))

\* the BacktestResult of a newly constructed Backtester whose strategy
\* returns the signals of the present run
FreshResult ==
    LET b == Replay(NewBacktester(initialBalance), emitted)
    IN  calculateResults(
            IF RGt(b.position, R(0))
            THEN executeSignal(b, Signal("SELL", Last(candles), R(1)))
            ELSE b,
            initialBalance)

\* the earlier result as its holder reads it now: its `trades` is an array
\* object, and shows what that array holds now
EarlierRead ==
    IF earlier.tradesId = tradesId
    THEN [earlier.result EXCEPT !.trades = trades]
    ELSE earlier.result

\* C11: backtest() resets balance, position, ledger and high-water mark on
\* entry, so a second backtest() on a used Backtester, with a fresh strategy,
\* returns the BacktestResult a new Backtester returns, and the result
\* returned earlier, its trades list included, is not altered by the later
\* call.
C11_Reuse ==
    earlier # Null =>
        /\ EarlierRead = earlier.result
        /\ pc = "done" => result = FreshResult

\* the second run has returned: the first had won, leaving its balance, its
\* ledger and a raised high-water mark behind, and the second bought and
\* sold at one price
C11_Witness ==
    /\ earlier # Null
    /\ pc = "done"
    /\ RGt(earlier.result.totalReturn, R(0))
    /\ Len(earlier.result.trades) = 2
    /\ Len(result.trades) = 2
    /\ result.totalReturn = R(0)
    /\ result.maxDrawdown = R(0)

\* the entries made so far carry, in the order of the input list, the name
\* and the parameters of the strategy at their index and a trade count that
\* is not negative; the latest entry carries the BacktestResult just returned
EntriesInOrder ==
    /\ Len(comparisons) <= Len(strategies)
    /\ \A k \in 1..Len(comparisons) :
         /\ comparisons[k].strategyName = getName(strategies[k])
         /\ comparisons[k].parameters = getParameters(strategies[k])
         /\ comparisons[k].results # Null
         /\ comparisons[k].results.totalTrades >= 0
    /\ (pc \in {"compare", "returned"} /\ comparisons # <<>>) =>
         Last(comparisons).results = result
    /\ pc = "returned" =>
         (Len(strategies) >= 1 /\ Len(comparisons) = Len(strategies))

\* an entry, once made, stays as it is
EntriesKept ==
    \A k \in 1..Len(comparisons) :
        Len(comparisons') >= k /\ comparisons'[k] = comparisons[k]

\* C12: for a list of n >= 1 strategies, compareStrategies returns exactly n
\* entries, the i-th carrying the name, the parameters and the
\* BacktestResult of the i-th input strategy, each with totalTrades >= 0.
C12_ComparatorOrdering == []EntriesInOrder /\ [][EntriesKept]_vars

\* a returned list of two entries for two different strategies, the first
\* of which traded
C12_Witness ==
    /\ pc = "returned"
    /\ Len(comparisons) = 2
    /\ comparisons[1].strategyName # comparisons[2].strategyName
    /\ comparisons[1].results.totalTrades >= 1
    /\ comparisons[1].results # comparisons[2].results

\* C14: if the analyze() of the k-th strategy raises, the exception leaves
\* backtest() and compareStrategies() uncaught and unretried: no result list
\* is returned and no strategy after the k-th is analyzed.
C14_ErrorPropagation ==
    /\ [](sig = Raised => (pc = "thrown" /\ result = Null))
    /\ [][sig # Raised]_vars

\* the second analyze() call of the first of two strategies has raised
C14_Witness ==
    /\ sig = Raised
    /\ pc = "thrown"
    /\ calls # <<>>
    /\ Len(strategies) > Len(comparisons) + 1

\* the non-HOLD signals a newly constructed instance of a concrete class
\* returns when backtest() runs it alone over the series, from index i on
RECURSIVE SignalsAlone(_, _, _)
SignalsAlone(s, cs, k) ==
    IF ~(k < Len(cs)) THEN <<>>
    ELSE LET out == analyze(s, SubSeq(cs, 1, k + 1))
         IN  (IF out.signal.type = "HOLD" THEN <<>> ELSE <<out.signal>>)
             \o SignalsAlone(out.strategy, cs, k + 1)

\* the BacktestResult of a Backtester with the given balance that is used
\* by nothing else and takes these signals over the series
ResultAlone(initial, signals, cs) ==
    LET b == Replay(NewBacktester(initial), signals)
    IN  calculateResults(
            IF RGt(b.position, R(0))
            THEN executeSignal(b, Signal("SELL", Last(cs), R(1)))
            ELSE b,
            initial)

\* the k-th run has returned what it returns alone
AsAlone(k) ==
    /\ runs[k].result =
         ResultAlone(initialBalance, runs[k].emitted, candles)
    /\ strategies[k].kind # "Stub" =>
         runs[k].emitted =
             SignalsAlone(strategies[k], candles, StartIndex(strategies[k]))

\* C13: each strategy runs on a Backtester of its own, with the same initial
\* balance and the same, unmodified candles, so the result of each distinct
\* instance is the result it has when run alone, and the same under any
\* interleaving of the per-candle steps of the runs.
C13_Independence ==
    \A k \in 1..Len(runs) : runs[k].pc = "done" => AsAlone(k)

\* both runs of a comparison have returned, with different results, and both
\* traded
C13_Witness ==
    /\ Len(runs) = 2
    /\ runs[1].pc = "done"
    /\ runs[2].pc = "done"
    /\ runs[1].result.totalTrades >= 1
    /\ runs[2].result.totalTrades >= 1
    /\ runs[1].result # runs[2].result

\* the last analyze() call was made on a warmed-up RSI_MA_ComboStrategy
ComboCalled ==
    /\ strategy.kind = "Combo"
    /\ calls # <<>>
    /\ Len(candles) >= Max(strategy.rsiPeriod, strategy.maLongPeriod) + 5

\* the signal returned is of this type and confidence
Answered(type, confidence) ==
    sig.type = type /\ RNorm(sig.confidence) = RNorm(confidence)

\* the BUY tiers of C21 on the indicator values: each confidence is answered
\* exactly when its tier is the first that matches
BuyTiers(s, latch, rsi, prevRSI, shortMA, longMA, prevShortMA, prevLongMA) ==
    LET recovery == RLe(prevRSI, R(s.rsiOversold)) /\ RGt(rsi, R(s.rsiOversold))
        upCross == RLe(prevShortMA, prevLongMA) /\ RGt(shortMA, longMA)
        strong == /\ RGt(shortMA, longMA)
                  /\ RGt(RAbs(RDiv(RSub(shortMA, longMA), longMA)), <<1, 1000>>)
    IN  /\ Answered("BUY", <<9, 10>>) <=>
              (latch # "BUY" /\ recovery /\ upCross)
        /\ Answered("BUY", <<7, 10>>) <=>
              (latch # "BUY" /\ recovery /\ strong /\ ~upCross)
        /\ Answered("BUY", <<5, 10>>) <=>
              (latch # "BUY" /\ upCross /\ RLt(rsi, R(60)) /\ ~recovery)

\* the SELL tiers, mirrored
SellTiers(s, latch, rsi, prevRSI, shortMA, longMA, prevShortMA, prevLongMA) ==
    LET decline ==
            RGe(prevRSI, R(s.rsiOverbought)) /\ RLt(rsi, R(s.rsiOverbought))
        downCross == RGe(prevShortMA, prevLongMA) /\ RLt(shortMA, longMA)
        strong == /\ RLt(shortMA, longMA)
                  /\ RGt(RAbs(RDiv(RSub(shortMA, longMA), longMA)), <<1, 1000>>)
    IN  /\ Answered("SELL", <<9, 10>>) <=>
              (latch # "SELL" /\ decline /\ downCross)
        /\ Answered("SELL", <<7, 10>>) <=>
              (latch # "SELL" /\ decline /\ strong /\ ~downCross)
        /\ Answered("SELL", <<5, 10>>) <=>
              (latch # "SELL" /\ downCross /\ RGt(rsi, R(40)) /\ ~decline)

\* C21: the BUY tiers of the Combo are evaluated in strict order and the
\* first match wins: RSI recovery through oversold with a fresh MA upcross
\* gives 0.9 even when a later tier matches too; RSI recovery with a bullish
\* trend stronger than 0.1% gives 0.7; MA upcross with RSI < 60 gives 0.5;
\* SELL mirrors with decline, down-cross and RSI > 40; every non-HOLD signal
\* has confidence 0.9, 0.7 or 0.5, and no tier fires while the latch already
\* holds the signal's type.
C21_ComboLadder ==
    ComboCalled =>
        /\ BuyTiers(strategy, prevStrategy.lastSignal,
                Combo_calculateRSI(strategy, candles),
                Combo_calculateRSI(strategy, ButLast(candles)),
                Combo_calculateMA(candles, strategy.maShortPeriod),
                Combo_calculateMA(candles, strategy.maLongPeriod),
                Combo_calculateMA(ButLast(candles), strategy.maShortPeriod),
                Combo_calculateMA(ButLast(candles), strategy.maLongPeriod))
        /\ SellTiers(strategy, prevStrategy.lastSignal,
                Combo_calculateRSI(strategy, candles),
                Combo_calculateRSI(strategy, ButLast(candles)),
                Combo_calculateMA(candles, strategy.maShortPeriod),
                Combo_calculateMA(candles, strategy.maLongPeriod),
                Combo_calculateMA(ButLast(candles), strategy.maShortPeriod),
                Combo_calculateMA(ButLast(candles), strategy.maLongPeriod))
        /\ sig.type # "HOLD" =>
              /\ RNorm(sig.confidence) \in {<<9, 10>>, <<7, 10>>, <<1, 2>>}
              /\ prevStrategy.lastSignal # sig.type

\* all three BUY tiers match on one call, and the call answers 0.9
C21_Witness ==
    /\ ComboCalled
    /\ prevStrategy.lastSignal # "BUY"
    /\ RLe(Combo_calculateRSI(strategy, ButLast(candles)),
           R(strategy.rsiOversold))
    /\ RGt(Combo_calculateRSI(strategy, candles), R(strategy.rsiOversold))
    /\ RLt(Combo_calculateRSI(strategy, candles), R(60))
    /\ RLe(Combo_calculateMA(ButLast(candles), strategy.maShortPeriod),
           Combo_calculateMA(ButLast(candles), strategy.maLongPeriod))
    /\ RGt(Combo_calculateMA(candles, strategy.maShortPeriod),
           RMul(Combo_calculateMA(candles, strategy.maLongPeriod),
                <<1001, 1000>>))
    /\ Answered("BUY", <<9, 10>>)

\* the last analyze() call was made on a warmed-up MACDStrategy
MACDCalled ==
    /\ strategy.kind = "MACD"
    /\ calls # <<>>
    /\ Len(candles) >= strategy.slowPeriod + strategy.signalPeriod + 5

\* the MACD line of a window: fast EMA minus slow EMA
MACDLine(s, cs) ==
    RSub(MACD_calculateEMA(cs, s.fastPeriod), MACD_calculateEMA(cs, s.slowPeriod))

\* the simple average of the MACD lines of the last n prefixes of a window
SignalLine(s, cs, n) ==
    RDiv(RSum([j \in 1..n |-> MACDLine(s, SubSeq(cs, 1, Len(cs) - n + j))]),
         R(n))

\* the rule of C22 on the two lines now and one candle earlier
MACDRule(latch, macd, signal, prevMACD, prevSignal) ==
    LET bullish == RLe(prevMACD, prevSignal) /\ RGt(macd, signal)
        bearish == RGe(prevMACD, prevSignal) /\ RLt(macd, signal)
        histogram == RSub(macd, signal)
    IN  /\ sig.type = "BUY" <=> (bullish /\ latch # "BUY")
        /\ sig.type = "SELL" <=> (bearish /\ latch # "SELL")
        /\ sig.type = "BUY" =>
              Answered("BUY", IF RGt(macd, R(0)) THEN <<4, 5>>
                              ELSE IF RGt(histogram, R(0)) THEN <<3, 5>>
                              ELSE <<2, 5>>)
        /\ sig.type = "SELL" =>
              Answered("SELL", IF RLt(macd, R(0)) THEN <<4, 5>>
                               ELSE IF RLt(histogram, R(0)) THEN <<3, 5>>
                               ELSE <<2, 5>>)

\* C22: past warm-up, MACD emits BUY iff prevMACD <= prevSignal and MACD >
\* signal and the latch is not BUY, with confidence 0.8 if MACD > 0, else 0.6
\* if histogram > 0, else 0.4; SELL mirrors with >=, <, latch not SELL and
\* MACD < 0, histogram < 0; the signal line is the simple average of exactly
\* signalPeriod MACD values.
C22_MACDRule ==
    MACDCalled =>
        /\ MACDRule(prevStrategy.lastSignal,
                MACDLine(strategy, candles),
                SignalLine(strategy, candles, strategy.signalPeriod),
                MACDLine(strategy, ButLast(candles)),
                SignalLine(strategy, ButLast(candles), strategy.signalPeriod))
        /\ MACD_calculateMACD(strategy, candles).count = strategy.signalPeriod
        /\ MACD_calculateMACD(strategy, candles).signal =
              SignalLine(strategy, candles, strategy.signalPeriod)

\* a BUY out of a window whose lines were equal one candle earlier
C22_Witness ==
    /\ MACDCalled
    /\ sig.type = "BUY"
    /\ MACDLine(strategy, ButLast(candles)) =
          SignalLine(strategy, ButLast(candles), strategy.signalPeriod)

\* the last analyze() call was made on a warmed-up MovingAverageCrossover
CrossoverCalled ==
    /\ strategy.kind = "MAC"
    /\ calls # <<>>
    /\ Len(candles) >= strategy.longPeriod

\* the simple moving average of the last `period` closes, of all closes when
\* the window has fewer
SMA(cs, period) ==
    LET n == Min(period, Len(cs))
    IN  RNorm(<<SumClose(LastN(cs, n)), n>>)

\* clamp(|(short - long) / long| x 50, 0.5, 0.9)
ClampedSpread(shortSMA, longSMA) ==
    LET x == RMul(RAbs(RDiv(RSub(shortSMA, longSMA), longSMA)), R(50))
    IN  IF RLt(x, <<1, 2>>) THEN <<1, 2>>
        ELSE IF RGt(x, <<9, 10>>) THEN <<9, 10>> ELSE x

\* the rule of C23 on the averages now and one candle earlier
CrossoverRule(latch, shortSMA, longSMA, prevShortSMA, prevLongSMA) ==
    /\ sig.type = "BUY" <=>
          (RLe(prevShortSMA, prevLongSMA) /\ RGt(shortSMA, longSMA)
           /\ latch # "BUY")
    /\ sig.type = "SELL" <=>
          (RGe(prevShortSMA, prevLongSMA) /\ RLt(shortSMA, longSMA)
           /\ latch # "SELL")
    /\ sig.type # "HOLD" =>
          RNorm(sig.confidence) = RNorm(ClampedSpread(shortSMA, longSMA))

C23_Crossover ==
    CrossoverCalled =>
        CrossoverRule(prevStrategy.lastSignal,
            SMA(candles, strategy.shortPeriod),
            SMA(candles, strategy.longPeriod),
            SMA(ButLast(candles), strategy.shortPeriod),
            IF Len(candles) > strategy.longPeriod
            THEN SMA(ButLast(candles), strategy.longPeriod) ELSE R(0))

\* a BUY past the first full window whose confidence is the spread itself,
\* strictly between the two clamps
C23_Witness ==
    /\ CrossoverCalled
    /\ Len(candles) > strategy.longPeriod
    /\ sig.type = "BUY"
    /\ RGt(sig.confidence, <<1, 2>>)
    /\ RLt(sig.confidence, <<9, 10>>)

\* C24: for every strategy and every window of candles with positive prices,
\* the Signal analyze() returns has a confidence in [0, 1], a HOLD has
\* confidence 0, and the price and timestamp are the close and timestamp of
\* the window's last candle.
C24_WellFormed ==
    (/\ calls # <<>>
     /\ strategy.kind # "Stub"
     /\ \A k \in 1..Len(candles) : candles[k].close > 0) =>
        /\ RGe(sig.confidence, R(0))
        /\ RLe(sig.confidence, R(1))
        /\ sig.type = "HOLD" => RNorm(sig.confidence) = R(0)
        /\ sig.type \in {"BUY", "SELL", "HOLD"}
        /\ sig.price = Last(candles).close
        /\ sig.timestamp = Last(candles).timestamp

\* an RSI signal at the cap of its confidence, on a window that has moved
C24_Witness ==
    /\ calls # <<>>
    /\ strategy.kind = "RSI"
    /\ sig.type # "HOLD"
    /\ RNorm(sig.confidence) = <<9, 10>>
    /\ sig.price # candles[1].close

\* the trailing `period` price changes of a window contain no loss
NoLoss(cs, period) ==
    \A k \in (Len(cs) - period + 1)..Len(cs) : cs[k].close >= cs[k - 1].close

\* the RSI range of C25 for one value computed over a window
RSIRange(rsi, cs, period) ==
    /\ RGe(rsi, R(0))
    /\ RLe(rsi, R(100))
    /\ NoLoss(cs, period) => RNorm(rsi) = R(100)

\* C25: for every window of at least period + 1 candles, calculateRSI (of
\* RSIStrategy and of the Combo) returns a value with 0 <= RSI <= 100, and
\* exactly 100 whenever the trailing `period` price changes contain no loss,
\* an entirely flat window included.
C25_RSIRange ==
    /\ (strategy.kind = "RSI" /\ Len(candles) >= strategy.period + 1) =>
          RSIRange(RSI_calculateRSI(strategy, candles), candles,
                   strategy.period)
    /\ (strategy.kind = "Combo" /\ Len(candles) >= strategy.rsiPeriod + 1) =>
          RSIRange(Combo_calculateRSI(strategy, candles), candles,
                   strategy.rsiPeriod)

\* RSIStrategy was called on an entirely flat window and its RSI is 100
C25_Witness ==
    /\ strategy.kind = "RSI"
    /\ calls # <<>>
    /\ Len(candles) >= strategy.period + 1
    /\ \A k \in 1..Len(candles) : candles[k].close = candles[1].close
    /\ RSI_calculateRSI(strategy, candles) = R(100)

\* the band ordering of C26 for the bands computed over a window
BandOrder(b, cs, period) ==
    /\ RLe(b.lowerBand, b.middleBand)
    /\ RLe(b.middleBand, b.upperBand)
    /\ b.middleBand = SMA(cs, period)
    /\ RSub(b.upperBand, b.middleBand) = RSub(b.middleBand, b.lowerBand)

\* C26: for every window of at least `period` candles and every multiplier
\* k >= 0, the computed bands satisfy lowerBand <= middleBand <= upperBand,
\* with middleBand the mean of the last `period` closes and
\* upperBand - middleBand = middleBand - lowerBand.
C26_BandOrder ==
    (/\ strategy.kind = "BB"
     /\ strategy.standardDeviations >= 0
     /\ Len(candles) >= strategy.period) =>
        BandOrder(BB_calculateBollingerBands(strategy, candles), candles,
                  strategy.period)

\* bands strictly apart on a window longer than the period whose earlier
\* closes differ from the recent ones
C26_Witness ==
    /\ strategy.kind = "BB"
    /\ calls # <<>>
    /\ Len(candles) > strategy.period
    /\ candles[1].close # Last(candles).close
    /\ RLt(BB_calculateBollingerBands(strategy, candles).lowerBand,
           BB_calculateBollingerBands(strategy, candles).middleBand)
    /\ RLt(BB_calculateBollingerBands(strategy, candles).middleBand,
           BB_calculateBollingerBands(strategy, candles).upperBand)

\* C30: the latch is set by every non-HOLD signal, whatever its confidence
\* and whether or not the Backtester executes it: after a BUY that was
\* dropped (a Bollinger BUY with the close exactly on the lower band has
\* confidence 0) no further BUY is emitted until a SELL, and the Backtester
\* can remain flat while the strategy is latched BUY.
C30_LatchAdvances ==
    (strategy.kind \in Latched /\ calls # <<>>) =>
        /\ sig.type \in {"BUY", "SELL"} => strategy.lastSignal = sig.type
        /\ sig.type = "HOLD" => strategy.lastSignal = prevStrategy.lastSignal
        /\ \A k \in 1..(Len(emitted) - 1) :
              emitted[k].type = "BUY" => emitted[k + 1].type = "SELL"
        /\ emitted # <<>> => strategy.lastSignal = Last(emitted).type

\* backtest() dropped a Bollinger BUY of confidence 0 and the next call, with
\* the close again at or below the lower band, answered HOLD: the strategy is
\* latched BUY and the Backtester is flat with an empty ledger
C30_Witness ==
    /\ strategy.kind = "BB"
    /\ pc = "loop"
    /\ Len(emitted) = 1
    /\ emitted[1].type = "BUY"
    /\ emitted[1].confidence = R(0)
    /\ sig.type = "HOLD"
    /\ BB_atOrBelowLower(strategy, Last(SubSeq(candles, 1, i)).close,
                         BB_calculateBollingerBands(strategy,
                                                    SubSeq(candles, 1, i)))
    /\ strategy.lastSignal = "BUY"
    /\ position = R(0)
    /\ trades = <<>>

\* the exchange orders among the bot's doings
Orders == {k \in 1..Len(log) : log[k].what \in {"marketBuy", "marketSell"}}

\* C27: LiveTrader never submits a market order while live trading is
\* inactive: a new LiveTrader is inactive, and under any interleaving of
\* executeTrade() with activate() and deactivate() no marketBuy or marketSell
\* is issued at a moment when isActive is false.
C27_NoOrderWhileInactive ==
    /\ NewLiveTrader.isActive = FALSE
    /\ pc = "bot" => \A k \in Orders : log[k].isActive

\* C28: once stop() has completed, the bot executes no further trade, demo
\* or live, and analyzes no further candle, also not for a tick of the
\* trading loop that was awaiting market data when stop() was called.
C28_StopHalts ==
    pc = "bot" => \A k \in 1..Len(log) : ~log[k].halted

\* C29: a TradingBot configured with demoMode = true never calls the
\* exchange's marketBuy or marketSell, whatever signals its strategy emits
\* and whether or not activateLiveTrading() is called: its LiveTrader is
\* never activated and no executeTrade of it waits on the exchange.
C29_DemoNoRealMoney ==
    (pc = "bot" /\ bot.demoMode) =>
        /\ Orders = {}
        /\ ~liveTrader.isActive
        /\ \A k \in 1..Len(tasks) :
              tasks[k].pc \notin {"awaitBuy", "awaitBalance", "awaitSell"}

\* a demo bot simulated a trade after activateLiveTrading() had been called
C29_Witness ==
    /\ pc = "bot"
    /\ bot.demoMode
    /\ \E k \in 1..Len(log) :
          log[k].what = "demoTrade" /\ log[k].activateCalled

\* the positions still open after the latest call that have been held for
\* maxHoldTime candles or more
HeldToLimit ==
    {k \in 1..Len(strategy.positions) :
        strategy.positions[k].candles >= strategy.maxHoldTime}

\* C31 as stated: a Scalping position is never held for more than
\* maxHoldTime candles; at the latest on the analyze() call at which its
\* candlesHeld reaches maxHoldTime it is closed and an exit is returned.
C31_MaxHoldAsStated == ScalpingCalled => HeldToLimit = {}

\* C31, amended: a position that has been held for maxHoldTime candles is
\* closed on that call if its profit is <= 0; a position that stays open at
\* or past the limit is in profit, by less than half the quick-profit target.
C31_MaxHoldWhileLosing ==
    ScalpingCalled =>
        \A k \in HeldToLimit :
            LET profit == ProfitAt(strategy.positions[k].type,
                                   strategy.positions[k].entry,
                                   Last(candles).close)
            IN  /\ RGt(profit, R(0))
                /\ RLt(profit, RMul(strategy.quickProfitTarget, <<1, 2>>))
                /\ sig.type = "HOLD"

\* a position was at the limit with a profit of 0 or less and the call
\* closed it with the hold-limit exit
C31_Witness ==
    /\ ScalpingCalled
    /\ prevStrategy.positions # <<>>
    /\ prevStrategy.positions[1].candles + 1 = strategy.maxHoldTime
    /\ RLe(ProfitAt(prevStrategy.positions[1].type,
                    prevStrategy.positions[1].entry, Last(candles).close),
           R(0))
    /\ RGt(ProfitAt(prevStrategy.positions[1].type,
                    prevStrategy.positions[1].entry, Last(candles).close),
           RSub(R(0), RMul(R(2), strategy.quickProfitTarget)))
    /\ sig.type # "HOLD"
    /\ RNorm(sig.confidence) = <<7, 10>>
    /\ strategy.positions = <<>>

\* C32: MovingAverageCrossover emits a non-HOLD signal only when the current
\* long SMA and the long SMA one candle earlier are both averages over a full
\* longPeriod closes; on a window of exactly longPeriod candles, whose earlier
\* window has longPeriod - 1, it returns HOLD.
C32_FullWindows ==
    (CrossoverCalled /\ sig.type # "HOLD") =>
        /\ Len(candles) >= strategy.longPeriod
        /\ Len(ButLast(candles)) >= strategy.longPeriod

\* C33: every BUY emitted by MACDStrategy has confidence 0.8 or 0.6 and never
\* 0.4, because a bullish crossover requires MACD > signal and so a histogram
\* above 0; every SELL likewise, with a histogram below 0; every MACD
\* non-HOLD signal therefore passes the Backtester's confidence gate of 0.1.
C33_LowestTierUnreachable ==
    (strategy.kind = "MACD" /\ calls # <<>> /\ sig.type # "HOLD") =>
        /\ RNorm(sig.confidence) \in {<<4, 5>>, <<3, 5>>}
        /\ sig.type = "BUY" =>
              RGt(RSub(MACDLine(strategy, candles),
                       SignalLine(strategy, candles, strategy.signalPeriod)),
                  R(0))
        /\ sig.type = "SELL" =>
              RLt(RSub(MACDLine(strategy, candles),
                       SignalLine(strategy, candles, strategy.signalPeriod)),
                  R(0))
        /\ RGt(sig.confidence, <<1, 10>>)

\* a BUY whose MACD line is not above zero: the middle tier answers 0.6
C33_Witness ==
    /\ MACDCalled
    /\ sig.type = "BUY"
    /\ RLe(MACDLine(strategy, candles), R(0))
    /\ RNorm(sig.confidence) = <<3, 5>>

(***************************************************************************)
(* Short series                                                            *)
(***************************************************************************)
\* the series ends at or before the index the loop starts from
ShortSeries == Len(candles) <= StartIndex(strategy)

\* the BacktestResult of a run that did nothing
EmptyResult ==
    [totalTrades |-> 0, winningTrades |-> 0, losingTrades |-> 0,
     winRate |-> R(0), totalReturn |-> R(0), maxDrawdown |-> R(0),
     sharpeRatio |-> R(0), trades |-> <<>>]

\* C34: backtest() on a series no longer than the start index, the empty
\* series included, never calls analyze(), records no trade, does not throw,
\* and returns zero for every count and ratio with an empty list of trades
C34_ShortSeries ==
    ShortSeries =>
        /\ calls = <<>>
        /\ trades = <<>>
        /\ pc \in {"idle", "loop", "closed", "done"}
        /\ sig = NoSignal
        /\ pc = "done" => result = EmptyResult

C34_Witness ==
    /\ pc = "done"
    /\ result = EmptyResult
    /\ \/ candles = <<>>
       \/ Len(candles) = StartIndex(strategy)

(***************************************************************************)
(* Empty comparison                                                        *)
(***************************************************************************)
\* C35: compareStrategies() called with an empty list returns the empty
\* list and does not raise
C35_EmptyComparison ==
    (strategies = <<>> /\ pc \in {"compare", "returned", "thrown"}) =>
        /\ pc # "thrown"
        /\ comparisons = <<>>

(***************************************************************************)
(* The interval timer of the trading loop                                   *)
(***************************************************************************)
\* C36: whatever the interleaving of start() and stop(), at most one interval
\* timer is active, an active timer is the one held in intervalId, and no
\* timer is active once the last stop() has completed
C36_SingleTimer ==
    pc = "bot" =>
        /\ Cardinality(timers) <= 1
        /\ timers \subseteq {bot.intervalId}
        /\ lifecycle.halted => timers = {}

(***************************************************************************)
(* The windows of the live trading loop                                     *)
(***************************************************************************)
\* open times strictly increasing: in order and without a duplicate
StrictlyIncreasing(window) ==
    \A k \in 1..(Len(window) - 1) : window[k] < window[k + 1]

\* C37: every window the trading loop hands to analyze() is one candle
\* longer than the window of the call before and strictly increasing by
\* timestamp, whatever the order in which overlapping ticks are answered
C37_LiveWindows ==
    pc = "bot" =>
        \A n \in 1..Len(lifecycle.windows) :
            /\ StrictlyIncreasing(lifecycle.windows[n])
            /\ n > 1 => Len(lifecycle.windows[n]) =
                            Len(lifecycle.windows[n - 1]) + 1

(***************************************************************************)
(* The current bot of the CLI                                               *)
(***************************************************************************)
\* C38: at most one bot started through the CLI is running, and a running
\* bot is the one currentBot refers to, so that `Stop Current Bot` stops it;
\* starting a bot while one is running does not leave the earlier one running
C38_SingleCurrentBot ==
    pc \in {"menu", "starting"} =>
        /\ Cardinality(CliRunning) <= 1
        /\ CliRunning \subseteq {cli.currentBot}

====
